---- MODULE Spec2Model ----
(***************************************************************************)
(* Game hub: the room orchestrator (server/routes.ts, first variant,       *)
(* lines 1-569), the in-memory storage (server/storage.ts) and the game    *)
(* engine (server/services/game-engine.ts).                                *)
(*                                                                         *)
(* One room is modelled.  A participant is a record                        *)
(*   [id, userId, playerType, isSpectator, isReady];                       *)
(* the storage keeps participants and game states in insertion order       *)
(* (JavaScript Map), so both are sequences.  A bot seat has a              *)
(* botDifficulty too.  Of another room only the game states are kept.      *)
(*                                                                         *)
(* GameMove is the game_move handler run from its first to its last line   *)
(* with no other handler in between; MoveReceive .. MoveBroadcast are the  *)
(* same handler taken one await at a time, and JoinReceive .. JoinRespond  *)
(* are the join route taken one await at a time.  The bot selectors are    *)
(* those of server/services/ai-service.ts; the checkers generator of the   *)
(* second copy of that class (unnamed/part_004) is modelled beside it.     *)
(***************************************************************************)
EXTENDS Integers, Sequences, FiniteSets, TLC

VARIABLES
    roomStatus,     \* GameRoom.status: "waiting" | "playing" | "finished"
    roomGameType,   \* GameRoom.gameType
    roomMaxPlayers, \* GameRoom.maxPlayers
    participants,   \* MemStorage.gameParticipants of the room, insertion order
    gameStates,     \* MemStorage.gameStates of the room, insertion order
    nUpdated,       \* number of game_updated events broadcast to the room
    nStarted,       \* number of game_started events broadcast to the room
    lastReply,      \* what the last handled request sent to its sender alone
                    \* ("none" if it sent nothing, "ignored" if the handler
                    \* fell through its conditions without doing anything)
    botTimers,      \* the bot-move timers game_move has set and that have not
                    \* fired, with the values their callbacks captured
    wsRoomId,       \* ws.roomId of each user's connection
    handlers,       \* the game_move handlers (in the join specification the
                    \* join requests) that are suspended at an await
    roomBStates,    \* MemStorage.gameStates of another room, insertion order
    nUpdatedOther   \* number of game_updated events broadcast to connections
                    \* that are not in the room

vars == <<roomStatus, roomGameType, roomMaxPlayers, participants, gameStates,
          nUpdated, nStarted, lastReply, botTimers, wsRoomId, handlers,
          roomBStates, nUpdatedOther>>

\* what the handlers of one room, run to completion, leave alone
asyncVars == <<wsRoomId, handlers, roomBStates, nUpdatedOther>>

----------------------------------------------------------------------------
(* Bounds *)

\* accepted moves per game in the chess specification
MaxPlies == 4
\* accepted moves per game in the room specification
MaxRoomPlies == 2
\* accepted moves per game in the card specification
MaxCardPlies == 2
\* random streams a shuffle may draw from
NumShuffles == 2
\* participants a room may collect
MaxParticipants == 3
\* game-state records a room may collect (start_game can be repeated)
MaxGames == 2
\* bot seats of a bot room
MaxBots == 2
\* game_move handlers that may be suspended at the same time
MaxHandlers == 2
\* game_updated events a bot room may see
MaxBotPlies == 2
\* accepted moves of the long chess game
MaxLinePlies == 20

----------------------------------------------------------------------------
(* JavaScript values *)

Null == "null"
Undefined == "undefined"
\* an absent numeric field (turn, round, direction)
NoNumber == -1
\* an absent boolean field (gameOver, inCheck) is FALSE: the code only ever
\* tests such a field for truth and only ever sets it to true

Abs(x) == IF x < 0 THEN -x ELSE x
Sign(x) == IF x < 0 THEN -1 ELSE IF x > 0 THEN 1 ELSE 0
Max(a, b) == IF a > b THEN a ELSE b

\* piece === piece.toUpperCase()
isUpper(piece) == piece \in {"P", "R", "N", "B", "Q", "K"}

\* piece.toLowerCase()
toLowerCase(piece) ==
    CASE piece \in {"P", "p"} -> "p"
      [] piece \in {"R", "r"} -> "r"
      [] piece \in {"N", "n"} -> "n"
      [] piece \in {"B", "b"} -> "b"
      [] piece \in {"Q", "q"} -> "q"
      [] piece \in {"K", "k"} -> "k"
      [] OTHER -> piece

Rows == 0..7
Cols == 0..7

Sq(r, c) == [row |-> r, col |-> c]

----------------------------------------------------------------------------
(* Game data: one record shape for the six games; a field a game does not  *)
(* set is Undefined (NoNumber, FALSE for numbers and booleans).            *)

EmptyGameData ==
    [gameType |-> Undefined, players |-> <<>>, board |-> Undefined,
     turn |-> NoNumber, phase |-> Undefined, winner |-> Undefined,
     gameOver |-> FALSE, endReason |-> Undefined, inCheck |-> FALSE,
     capturedPieces |-> Undefined, moveHistory |-> Undefined,
     currentTurn |-> Undefined, playerColors |-> Undefined,
     hands |-> Undefined, scores |-> Undefined, trick |-> Undefined,
     trickWinner |-> Undefined, round |-> NoNumber, bids |-> Undefined,
     tricks |-> Undefined, drawPile |-> Undefined, discardPile |-> Undefined,
     currentSuit |-> Undefined, direction |-> NoNumber, books |-> Undefined]

\* board literal of initializeChess, rows 0..7
ChessRows ==
    << <<"r", "n", "b", "q", "k", "b", "n", "r">>,
       <<"p", "p", "p", "p", "p", "p", "p", "p">>,
       <<Null, Null, Null, Null, Null, Null, Null, Null>>,
       <<Null, Null, Null, Null, Null, Null, Null, Null>>,
       <<Null, Null, Null, Null, Null, Null, Null, Null>>,
       <<Null, Null, Null, Null, Null, Null, Null, Null>>,
       <<"P", "P", "P", "P", "P", "P", "P", "P">>,
       <<"R", "N", "B", "Q", "K", "B", "N", "R">> >>

initializeChess(players) ==
    [EmptyGameData EXCEPT
        !.gameType = "chess",
        !.players = players,
        !.board = [r \in Rows |-> [c \in Cols |-> ChessRows[r + 1][c + 1]]],
        !.turn = 0,
        !.phase = "playing",
        !.moveHistory = <<>>,
        !.capturedPieces = [white |-> <<>>, black |-> <<>>]]

initializeCheckers(players) ==
    [EmptyGameData EXCEPT
        !.gameType = "checkers",
        !.players = players,
        !.board = [r \in Rows |-> [c \in Cols |->
                      IF r < 3 /\ (r + c) % 2 = 1 THEN "b"
                      ELSE IF r >= 5 /\ (r + c) % 2 = 1 THEN "r"
                      ELSE Null]],
        !.turn = 0,
        !.phase = "playing",
        !.capturedPieces = [white |-> <<>>, black |-> <<>>],
        !.moveHistory = <<>>]

----------------------------------------------------------------------------
(* Chess legality *)

isSameColor(piece1, piece2) == isUpper(piece1) = isUpper(piece2)

\* walks from the square after `from` up to the square before `to`
isPathClear(board, from, to) ==
    LET dr == Sign(to.row - from.row)
        dc == Sign(to.col - from.col)
        n  == Max(Abs(to.row - from.row), Abs(to.col - from.col))
    IN \A k \in 1..(n - 1) : board[from.row + k * dr][from.col + k * dc] = Null

\* as isValidPawnMove, with the start rows of the two colours exchanged
isValidPawnMoveStartRows(board, piece, from, to, dr, dc) ==
    LET isWhite == isUpper(piece)
        direction == IF isWhite THEN -1 ELSE 1
        startRow == IF isWhite THEN 1 ELSE 6
        targetPiece == board[to.row][to.col]
    IN IF dc = 0
       THEN \/ (dr = direction /\ targetPiece = Null)
            \/ (from.row = startRow /\ dr = 2 * direction /\ targetPiece = Null
                /\ board[from.row + direction][from.col] = Null)
       ELSE Abs(dc) = 1 /\ dr = direction /\ targetPiece # Null
            /\ ~isSameColor(piece, targetPiece)

isValidPawnMove(board, piece, from, to, dr, dc) ==
    LET isWhite == isUpper(piece)
        direction == IF isWhite THEN -1 ELSE 1
        startRow == IF isWhite THEN 6 ELSE 1
        targetPiece == board[to.row][to.col]
    IN IF dc = 0
       THEN \/ (dr = direction /\ targetPiece = Null)
            \/ (from.row = startRow /\ dr = 2 * direction /\ targetPiece = Null
                /\ board[from.row + direction][from.col] = Null)
       ELSE Abs(dc) = 1 /\ dr = direction /\ targetPiece # Null
            /\ ~isSameColor(piece, targetPiece)

isValidPieceMove(board, piece, from, to) ==
    LET dr == to.row - from.row
        dc == to.col - from.col
        absDr == Abs(dr)
        absDc == Abs(dc)
        kind == toLowerCase(piece)
    IN CASE kind = "p" -> isValidPawnMove(board, piece, from, to, dr, dc)
         [] kind = "r" -> (dr = 0 \/ dc = 0) /\ isPathClear(board, from, to)
         [] kind = "n" -> (absDr = 2 /\ absDc = 1) \/ (absDr = 1 /\ absDc = 2)
         [] kind = "b" -> absDr = absDc /\ isPathClear(board, from, to)
         [] kind = "q" -> (dr = 0 \/ dc = 0 \/ absDr = absDc) /\ isPathClear(board, from, to)
         [] kind = "k" -> absDr <= 1 /\ absDc <= 1
         [] OTHER -> FALSE

canPieceAttack(board, piece, from, to) ==
    LET dr == to.row - from.row
        dc == to.col - from.col
        absDr == Abs(dr)
        absDc == Abs(dc)
        kind == toLowerCase(piece)
    IN CASE kind = "p" -> dr = (IF isUpper(piece) THEN -1 ELSE 1) /\ absDc = 1
         [] kind = "r" -> (dr = 0 \/ dc = 0) /\ isPathClear(board, from, to)
         [] kind = "n" -> (absDr = 2 /\ absDc = 1) \/ (absDr = 1 /\ absDc = 2)
         [] kind = "b" -> absDr = absDc /\ isPathClear(board, from, to)
         [] kind = "q" -> (dr = 0 \/ dc = 0 \/ absDr = absDc) /\ isPathClear(board, from, to)
         [] kind = "k" -> absDr <= 1 /\ absDc <= 1
         [] OTHER -> FALSE

\* color is "white" or "black"; the first king in row-major order is used
isKingInCheck(board, color) ==
    LET king == IF color = "white" THEN "K" ELSE "k"
        kings == {p \in Rows \X Cols : board[p[1]][p[2]] = king}
    IN IF kings = {} THEN FALSE
       ELSE LET kp == CHOOSE p \in kings :
                         \A q \in kings : p[1] * 8 + p[2] <= q[1] * 8 + q[2]
                kingPos == Sq(kp[1], kp[2])
            IN \E r \in Rows, c \in Cols :
                  /\ board[r][c] # Null
                  /\ ~isSameColor(board[r][c], king)
                  /\ canPieceAttack(board, board[r][c], Sq(r, c), kingPos)

\* the scratch board of isValidChessMove and the move of processChessMove
movePiece(board, from, to) ==
    LET piece == board[from.row][from.col]
        placed == [board EXCEPT ![to.row][to.col] = piece]
    IN [placed EXCEPT ![from.row][from.col] = Null]

\* as isValidChessMove, without the test on the scratch board
isValidChessMoveNoSelfCheck(gameData, from, to) ==
    LET board == gameData.board
        piece == board[from.row][from.col]
        targetPiece == board[to.row][to.col]
    IN /\ piece # Null
       /\ ~(targetPiece # Null /\ isSameColor(piece, targetPiece))
       /\ isValidPieceMove(board, piece, from, to)

isValidChessMove(gameData, from, to) ==
    LET board == gameData.board
        piece == board[from.row][from.col]
        targetPiece == board[to.row][to.col]
    IN /\ piece # Null
       /\ ~(targetPiece # Null /\ isSameColor(piece, targetPiece))
       /\ isValidPieceMove(board, piece, from, to)
       /\ ~isKingInCheck(movePiece(board, from, to),
                         IF isUpper(piece) THEN "white" ELSE "black")

\* as hasValidMoves, looking at the pieces of both colours
hasValidMovesAnyColor(gameData, color) ==
    LET board == gameData.board
    IN /\ gameData.gameType \in {"chess", "checkers"}
       /\ \E r \in Rows, c \in Cols :
            /\ board[r][c] # Null
            /\ \E tr \in Rows, tc \in Cols :
                 /\ ~(r = tr /\ c = tc)
                 /\ isValidChessMove(gameData, Sq(r, c), Sq(tr, tc))

hasValidMoves(gameData, color) ==
    LET board == gameData.board
    IN /\ gameData.gameType \in {"chess", "checkers"}   \* if (!board) return false
       /\ \E r \in Rows, c \in Cols :
            /\ board[r][c] # Null
            /\ \/ (color = "white" /\ isUpper(board[r][c]))
               \/ (color = "black" /\ ~isUpper(board[r][c]))
            /\ \E tr \in Rows, tc \in Cols :
                 /\ ~(r = tr /\ c = tc)
                 /\ isValidChessMove(gameData, Sq(r, c), Sq(tr, tc))

----------------------------------------------------------------------------
(* Chess and checkers moves.  An engine call yields                        *)
(*   threw : an exception left the call                                    *)
(*   arg   : the state object that was passed in, as it is after the call  *)
(*   ret   : the returned state (Undefined when threw)                     *)
(*   same  : the returned state is the object that was passed in           *)

ChessMove(from, to) == [type |-> "chess_move", data |-> [from |-> from, to |-> to]]

\* "Update captured pieces": newCapturedPieces holds the arrays of
\* gameData.capturedPieces themselves, so a push is seen through both objects
recordCaptureWrongList(capturedPieces, piece, capturedPiece) ==
    IF capturedPiece # Null
    THEN [capturedPieces EXCEPT
             ![IF isUpper(capturedPiece) THEN "white" ELSE "black"] =
                 Append(@, capturedPiece)]
    ELSE capturedPieces

recordCapture(capturedPieces, piece, capturedPiece) ==
    IF capturedPiece # Null
    THEN [capturedPieces EXCEPT
             ![IF isUpper(piece) THEN "white" ELSE "black"] = Append(@, capturedPiece)]
    ELSE capturedPieces

\* "Check for checkmate or check"
terminalCheckWrongWinner(newGameData) ==
    LET currentColor == IF newGameData.turn = 0 THEN "white" ELSE "black"
        isInCheck == isKingInCheck(newGameData.board, currentColor)
        hasValid == hasValidMoves(newGameData, currentColor)
    IN IF isInCheck /\ ~hasValid
       THEN [newGameData EXCEPT
                !.winner = IF newGameData.turn = 0 THEN "white" ELSE "black",
                !.gameOver = TRUE,
                !.endReason = "checkmate"]
       ELSE IF ~hasValid
       THEN [newGameData EXCEPT
                !.winner = "draw", !.gameOver = TRUE, !.endReason = "stalemate"]
       ELSE IF isInCheck
       THEN [newGameData EXCEPT !.inCheck = TRUE]
       ELSE newGameData

terminalCheck(newGameData) ==
    LET currentColor == IF newGameData.turn = 0 THEN "white" ELSE "black"
        isInCheck == isKingInCheck(newGameData.board, currentColor)
        hasValid == hasValidMoves(newGameData, currentColor)
    IN IF isInCheck /\ ~hasValid
       THEN [newGameData EXCEPT
                !.winner = IF newGameData.turn = 0 THEN "black" ELSE "white",
                !.gameOver = TRUE,
                !.endReason = "checkmate"]
       ELSE IF ~hasValid
       THEN [newGameData EXCEPT
                !.winner = "draw", !.gameOver = TRUE, !.endReason = "stalemate"]
       ELSE IF isInCheck
       THEN [newGameData EXCEPT !.inCheck = TRUE]
       ELSE newGameData

\* processChessMove after the validation
applyChessMove(gameData, move) ==
    LET from == move.data.from
        to == move.data.to
        piece == gameData.board[from.row][from.col]
        capturedPiece == gameData.board[to.row][to.col]
        moved == movePiece(gameData.board, from, to)
        newCapturedPieces == recordCapture(gameData.capturedPieces, piece, capturedPiece)
        newBoard ==
            IF (piece = "P" /\ to.row = 0) \/ (piece = "p" /\ to.row = 7)
            THEN [moved EXCEPT ![to.row][to.col] = IF piece = "P" THEN "Q" ELSE "q"]
            ELSE moved
        newGameData == [gameData EXCEPT
                           !.board = newBoard,
                           !.turn = 1 - gameData.turn,
                           !.moveHistory = Append(gameData.moveHistory, move),
                           !.capturedPieces = newCapturedPieces]
    IN [threw |-> FALSE,
        arg |-> [gameData EXCEPT !.capturedPieces = newCapturedPieces],
        ret |-> terminalCheck(newGameData),
        same |-> FALSE]

\* as processChessMove, but the piece is moved on the board of the state
\* passed in before the move is validated
processChessMoveInPlace(gameData, move, playerId) ==
    IF ~isValidChessMove(gameData, move.data.from, move.data.to)
    THEN [threw |-> TRUE,
          arg |-> [gameData EXCEPT
                      !.board = movePiece(gameData.board, move.data.from, move.data.to)],
          ret |-> Undefined,
          same |-> FALSE]
    ELSE applyChessMove(gameData, move)

processChessMove(gameData, move, playerId) ==
    IF ~isValidChessMove(gameData, move.data.from, move.data.to)
    THEN [threw |-> TRUE, arg |-> gameData, ret |-> Undefined, same |-> FALSE]
    ELSE applyChessMove(gameData, move)

CheckersMove(from, to, captures) ==
    [type |-> "checkers_move", data |-> [from |-> from, to |-> to, captures |-> captures]]

RECURSIVE clearSquares(_, _)
clearSquares(board, captures) ==
    IF captures = <<>> THEN board
    ELSE clearSquares([board EXCEPT ![Head(captures).row][Head(captures).col] = Null],
                      Tail(captures))

processCheckersMove(gameData, move, playerId) ==
    LET moved == movePiece(gameData.board, move.data.from, move.data.to)
        newBoard == clearSquares(moved, move.data.captures)
    IN [threw |-> FALSE,
        arg |-> gameData,
        ret |-> [gameData EXCEPT !.board = newBoard, !.turn = 1 - gameData.turn],
        same |-> FALSE]

----------------------------------------------------------------------------
(* Cards.  A card token is the string rank + suit, kept as the sequence of *)
(* its characters; the suit letters S, H, D, C stand for the four suit     *)
(* symbols of createStandardDeck, in its order.                            *)

suits == <<"S", "H", "D", "C">>
ranks == << <<"A">>, <<"2">>, <<"3">>, <<"4">>, <<"5">>, <<"6">>, <<"7">>,
            <<"8">>, <<"9">>, <<"1", "0">>, <<"J">>, <<"Q">>, <<"K">> >>

createStandardDeck ==
    [i \in 1..52 |-> ranks[((i - 1) % 13) + 1] \o <<suits[((i - 1) \div 13) + 1]>>]

\* Math.floor(Math.random() * (i + 1)) of the seed-th random stream
randomIndex(seed, i) == (seed * 7 + i * (seed + 3)) % (i + 1)

swap(s, a, b) == [s EXCEPT ![a] = s[b], ![b] = s[a]]

\* the loop body of shuffleDeck for 0-based i, i - 1, ..., 1
RECURSIVE shuffleFrom(_, _, _)
shuffleFrom(shuffled, i, seed) ==
    IF i <= 0 THEN shuffled
    ELSE shuffleFrom(swap(shuffled, i + 1, randomIndex(seed, i) + 1), i - 1, seed)

shuffleDeck(deck, seed) == shuffleFrom(deck, Len(deck) - 1, seed)

\* Array.prototype.slice(a, b) with 0 <= a, 0 <= b
slice(s, a, b) ==
    LET hi == IF b > Len(s) THEN Len(s) ELSE b
    IN IF a >= hi THEN <<>> ELSE SubSeq(s, a + 1, hi)

\* hand.filter(c => c !== card)
removeCard(hand, card) ==
    LET keep(c) == c # card
    IN SelectSeq(hand, keep)

\* card.startsWith(rank)
startsWith(card, rank) ==
    Len(rank) <= Len(card) /\ SubSeq(card, 1, Len(rank)) = rank

ToSet(s) == {s[i] : i \in DOMAIN s}

zeroScores(players) == [p \in ToSet(players) |-> 0]

initializeHearts(players, seed) ==
    LET shuffledDeck == shuffleDeck(createStandardDeck, seed)
    IN [EmptyGameData EXCEPT
           !.gameType = "hearts",
           !.players = players,
           !.hands = [p \in ToSet(players) |->
                        LET index == (CHOOSE i \in DOMAIN players : players[i] = p) - 1
                        IN slice(shuffledDeck, index * 13, (index + 1) * 13)],
           !.scores = zeroScores(players),
           !.trick = <<>>,
           !.trickWinner = Null,
           !.phase = "passing",
           !.round = 1]

initializeSpades(players, seed) ==
    LET shuffledDeck == shuffleDeck(createStandardDeck, seed)
    IN [EmptyGameData EXCEPT
           !.gameType = "spades",
           !.players = players,
           !.hands = [p \in ToSet(players) |->
                        LET index == (CHOOSE i \in DOMAIN players : players[i] = p) - 1
                        IN slice(shuffledDeck, index * 13, (index + 1) * 13)],
           !.scores = zeroScores(players),
           !.bids = <<>>,
           !.tricks = zeroScores(players),
           !.phase = "bidding",
           !.round = 1]

\* as initializeCrazy8s, with the flipped card left on the draw pile as well
initializeCrazy8sKeepsFlipped(players, seed) ==
    LET shuffledDeck == shuffleDeck(createStandardDeck, seed)
        cardsPerPlayer == IF Len(players) <= 2 THEN 7 ELSE 5
        deckIndex == Len(players) * cardsPerPlayer
    IN [EmptyGameData EXCEPT
           !.gameType = "crazy8s",
           !.players = players,
           !.hands = [p \in ToSet(players) |->
                        LET index == (CHOOSE i \in DOMAIN players : players[i] = p) - 1
                        IN slice(shuffledDeck, index * cardsPerPlayer,
                                 (index + 1) * cardsPerPlayer)],
           !.drawPile = slice(shuffledDeck, deckIndex, Len(shuffledDeck)),
           !.discardPile = <<shuffledDeck[deckIndex + 1]>>,
           !.currentSuit = Null,
           !.phase = "playing",
           !.direction = 1]

initializeCrazy8s(players, seed) ==
    LET shuffledDeck == shuffleDeck(createStandardDeck, seed)
        cardsPerPlayer == IF Len(players) <= 2 THEN 7 ELSE 5
        deckIndex == Len(players) * cardsPerPlayer
    IN [EmptyGameData EXCEPT
           !.gameType = "crazy8s",
           !.players = players,
           !.hands = [p \in ToSet(players) |->
                        LET index == (CHOOSE i \in DOMAIN players : players[i] = p) - 1
                        IN slice(shuffledDeck, index * cardsPerPlayer,
                                 (index + 1) * cardsPerPlayer)],
           !.drawPile = slice(shuffledDeck, deckIndex + 1, Len(shuffledDeck)),
           !.discardPile = <<shuffledDeck[deckIndex + 1]>>,
           !.currentSuit = Null,
           !.phase = "playing",
           !.direction = 1]

initializeGoFish(players, seed) ==
    LET shuffledDeck == shuffleDeck(createStandardDeck, seed)
        cardsPerPlayer == IF Len(players) <= 4 THEN 7 ELSE 5
        deckIndex == Len(players) * cardsPerPlayer
    IN [EmptyGameData EXCEPT
           !.gameType = "gofish",
           !.players = players,
           !.hands = [p \in ToSet(players) |->
                        LET index == (CHOOSE i \in DOMAIN players : players[i] = p) - 1
                        IN slice(shuffledDeck, index * cardsPerPlayer,
                                 (index + 1) * cardsPerPlayer)],
           !.drawPile = slice(shuffledDeck, deckIndex, Len(shuffledDeck)),
           !.books = [p \in ToSet(players) |-> <<>>],
           !.phase = "playing"]

----------------------------------------------------------------------------
(* Card moves *)

\* a play_card message carries no bid: move.data.bid is undefined
PlayCard(card) ==
    [type |-> "play_card",
     data |-> [card |-> card, newSuit |-> Undefined, bid |-> Undefined]]
DrawCard == [type |-> "draw_card", data |-> [card |-> Undefined, newSuit |-> Undefined]]
PassMove == [type |-> "pass", data |-> [card |-> Undefined, newSuit |-> Undefined]]
Bid(n) == [type |-> "bid", data |-> [bid |-> n]]
AskForCards(targetPlayer, rank) ==
    [type |-> "ask_for_cards", data |-> [targetPlayer |-> targetPlayer, rank |-> rank]]

Threw(gameData) == [threw |-> TRUE, arg |-> gameData, ret |-> Undefined, same |-> FALSE]
Returned(gameData, newGameData) ==
    [threw |-> FALSE, arg |-> gameData, ret |-> newGameData, same |-> FALSE]

processHeartsMove(gameData, move, playerId) ==
    IF playerId \notin DOMAIN gameData.hands THEN Threw(gameData)
    ELSE LET card == move.data.card
             newHands == [gameData.hands EXCEPT ![playerId] = removeCard(@, card)]
             newTrick == Append(gameData.trick, [playerId |-> playerId, card |-> card])
         IN Returned(gameData, [gameData EXCEPT !.hands = newHands, !.trick = newTrick])

processSpadesMove(gameData, move, playerId) ==
    IF gameData.phase = "bidding"
    THEN Returned(gameData,
            [gameData EXCEPT !.bids =
                [p \in (DOMAIN gameData.bids) \cup {playerId} |->
                    IF p = playerId THEN move.data.bid ELSE gameData.bids[p]]])
    ELSE IF playerId \notin DOMAIN gameData.hands THEN Threw(gameData)
    ELSE Returned(gameData,
            [gameData EXCEPT !.hands[playerId] = removeCard(@, move.data.card)])

\* as processCrazy8sMove, with a played card left in the hand
processCrazy8sMoveKeepsCard(gameData, move, playerId) ==
    IF move.type = "play_card"
    THEN IF playerId \notin DOMAIN gameData.hands THEN Threw(gameData)
         ELSE Returned(gameData,
                [gameData EXCEPT
                    !.discardPile = Append(@, move.data.card),
                    !.currentSuit = IF move.data.newSuit = Undefined THEN Null
                                    ELSE move.data.newSuit])
    ELSE IF move.type = "draw_card"
    THEN LET n == Len(gameData.drawPile)
         IN IF n = 0
            THEN Returned(gameData, gameData)
            ELSE IF playerId \notin DOMAIN gameData.hands THEN Threw(gameData)
            ELSE Returned(gameData,
                    [gameData EXCEPT
                        !.hands[playerId] = Append(@, gameData.drawPile[n]),
                        !.drawPile = SubSeq(gameData.drawPile, 1, n - 1)])
    ELSE [threw |-> FALSE, arg |-> gameData, ret |-> gameData, same |-> TRUE]

processCrazy8sMove(gameData, move, playerId) ==
    IF move.type = "play_card"
    THEN IF playerId \notin DOMAIN gameData.hands THEN Threw(gameData)
         ELSE Returned(gameData,
                [gameData EXCEPT
                    !.hands[playerId] = removeCard(@, move.data.card),
                    !.discardPile = Append(@, move.data.card),
                    !.currentSuit = IF move.data.newSuit = Undefined THEN Null
                                    ELSE move.data.newSuit])
    ELSE IF move.type = "draw_card"
    THEN LET n == Len(gameData.drawPile)
         IN IF n = 0
            THEN Returned(gameData, gameData)
            ELSE IF playerId \notin DOMAIN gameData.hands THEN Threw(gameData)
            ELSE Returned(gameData,
                    [gameData EXCEPT
                        !.hands[playerId] = Append(@, gameData.drawPile[n]),
                        !.drawPile = SubSeq(gameData.drawPile, 1, n - 1)])
    \* the state object itself is returned
    ELSE [threw |-> FALSE, arg |-> gameData, ret |-> gameData, same |-> TRUE]

\* as processGoFishMove, with the drawn card taken from the front of the pile
processGoFishMoveDrawFirst(gameData, move, playerId) ==
    LET targetPlayer == move.data.targetPlayer
        rank == move.data.rank
    IN IF targetPlayer \notin DOMAIN gameData.hands THEN Threw(gameData)
       ELSE
       LET isRank(card) == startsWith(card, rank)
           notRank(card) == ~startsWith(card, rank)
           targetCards == SelectSeq(gameData.hands[targetPlayer], isRank)
           n == Len(gameData.drawPile)
           newDrawPile == slice(gameData.drawPile, 0, n - 1)
       IN IF Len(targetCards) > 0
          THEN IF playerId \notin DOMAIN gameData.hands THEN Threw(gameData)
               ELSE LET taken == [gameData.hands EXCEPT
                                     ![targetPlayer] = SelectSeq(@, notRank)]
                        newHands == [taken EXCEPT ![playerId] = @ \o targetCards]
                    IN Returned(gameData,
                          [gameData EXCEPT !.hands = newHands, !.drawPile = newDrawPile])
          ELSE IF n = 0
          THEN Returned(gameData, [gameData EXCEPT !.drawPile = newDrawPile])
          ELSE IF playerId \notin DOMAIN gameData.hands THEN Threw(gameData)
          ELSE Returned(gameData,
                  [gameData EXCEPT
                      !.hands[playerId] = Append(@, gameData.drawPile[1]),
                      !.drawPile = newDrawPile])

processGoFishMove(gameData, move, playerId) ==
    LET targetPlayer == move.data.targetPlayer
        rank == move.data.rank
    IN IF targetPlayer \notin DOMAIN gameData.hands THEN Threw(gameData)
       ELSE
       LET isRank(card) == startsWith(card, rank)
           notRank(card) == ~startsWith(card, rank)
           targetCards == SelectSeq(gameData.hands[targetPlayer], isRank)
           n == Len(gameData.drawPile)
           \* the draw pile loses its last card on both branches
           newDrawPile == slice(gameData.drawPile, 0, n - 1)
       IN IF Len(targetCards) > 0
          THEN IF playerId \notin DOMAIN gameData.hands THEN Threw(gameData)
               ELSE LET taken == [gameData.hands EXCEPT
                                     ![targetPlayer] = SelectSeq(@, notRank)]
                        newHands == [taken EXCEPT ![playerId] = @ \o targetCards]
                    IN Returned(gameData,
                          [gameData EXCEPT !.hands = newHands, !.drawPile = newDrawPile])
          ELSE IF n = 0
          THEN Returned(gameData, [gameData EXCEPT !.drawPile = newDrawPile])
          ELSE IF playerId \notin DOMAIN gameData.hands THEN Threw(gameData)
          ELSE Returned(gameData,
                  [gameData EXCEPT
                      !.hands[playerId] = Append(@, gameData.drawPile[n]),
                      !.drawPile = newDrawPile])

----------------------------------------------------------------------------
(* Engine entry points *)

isPlayer(p) == ~p.isSpectator

\* participants.filter(p => !p.isSpectator)
nonSpectators(parts) == SelectSeq(parts, isPlayer)

\* nonSpectatorParticipants[index]?.id
idAt(parts, index) ==
    LET ns == nonSpectators(parts)
    IN IF index + 1 \in DOMAIN ns THEN ns[index + 1].id ELSE Undefined

\* gameData.turn || 0
turnOrZero(gameData) == IF gameData.turn = NoNumber THEN 0 ELSE gameData.turn

playerIds(parts) ==
    LET ns == nonSpectators(parts)
    IN [i \in DOMAIN ns |-> ns[i].id]

initializeGame(gameType, parts, seed) ==
    LET players == playerIds(parts)
    IN CASE gameType = "chess" -> initializeChess(players)
         [] gameType = "checkers" -> initializeCheckers(players)
         [] gameType = "hearts" -> initializeHearts(players, seed)
         [] gameType = "spades" -> initializeSpades(players, seed)
         [] gameType = "crazy8s" -> initializeCrazy8s(players, seed)
         [] gameType = "gofish" -> initializeGoFish(players, seed)

processGameSpecificMove(gameType, gameData, move, playerId) ==
    CASE gameType = "chess" -> processChessMove(gameData, move, playerId)
      [] gameType = "checkers" -> processCheckersMove(gameData, move, playerId)
      [] gameType = "hearts" -> processHeartsMove(gameData, move, playerId)
      [] gameType = "spades" -> processSpadesMove(gameData, move, playerId)
      [] gameType = "crazy8s" -> processCrazy8sMove(gameData, move, playerId)
      [] gameType = "gofish" -> processGoFishMove(gameData, move, playerId)

\* "Update turn": r is the outcome of processGameSpecificMove
updateTurn(r, allParticipants) ==
    IF r.threw THEN [threw |-> TRUE, arg |-> r.arg, ret |-> Undefined]
    ELSE LET updatedGameData ==
                 [r.ret EXCEPT !.currentTurn =
                     idAt(allParticipants, turnOrZero(r.ret))]
         IN [threw |-> FALSE,
             arg |-> IF r.same THEN updatedGameData ELSE r.arg,
             ret |-> updatedGameData]

processMove(gameType, gameData, move, playerId, allParticipants) ==
    updateTurn(processGameSpecificMove(gameType, gameData, move, playerId),
               allParticipants)

----------------------------------------------------------------------------
(* Storage and room orchestrator *)

\* the room's host (GameRoom.hostId), the creator of the room
HostId == "u1"

\* GameRoom.id of the room and of another room
ThisRoom == "roomA"
OtherRoom == "roomB"

\* ws.roomId && ws.userId, for a connection that joined the room
inRoom(userId) == wsRoomId[userId] = ThisRoom

\* randomUUID() of the n-th participant
PIds == <<"p1", "p2", "p3", "p4", "p5", "p6">>

addParticipant(parts, userId, isSpectator) ==
    Append(parts, [id |-> PIds[Len(parts) + 1], userId |-> userId,
                   playerType |-> "human", isSpectator |-> isSpectator,
                   isReady |-> FALSE])

\* index of participants.find(p => p.userId === userId), 0 when there is none
findByUser(parts, userId) ==
    LET hits == {i \in DOMAIN parts : parts[i].userId = userId}
    IN IF hits = {} THEN 0 ELSE CHOOSE i \in hits : \A j \in hits : i <= j

createGameState(states, gameData, currentTurn) ==
    Append(states, [gameData |-> gameData,
                    currentTurn |-> IF currentTurn = Undefined THEN Null ELSE currentTurn,
                    turnNumber |-> 1])

\* the record getGameState finds: the first one of the room
getGameState(states) == states[1]

playerColorsFor(gameType, parts) ==
    IF gameType = "chess"
    THEN [k \in {idAt(parts, 0), idAt(parts, 1)} |->
             IF k = idAt(parts, 1) THEN "black" ELSE "white"]
    ELSE IF gameType = "checkers"
    THEN [k \in {idAt(parts, 0), idAt(parts, 1)} |->
             IF k = idAt(parts, 1) THEN "black" ELSE "red"]
    ELSE <<>>

\* POST /api/rooms/:id/join
Join(userId, isSpectator) ==
    /\ Len(participants) < MaxParticipants
    /\ IF ~isSpectator /\ Len(nonSpectators(participants)) >= roomMaxPlayers
       THEN /\ lastReply' = "Room is full"
            /\ UNCHANGED participants
       ELSE /\ participants' = addParticipant(participants, userId, isSpectator)
            /\ lastReply' = "none"
    /\ UNCHANGED <<roomStatus, roomGameType, roomMaxPlayers, gameStates, nUpdated,
                   nStarted, botTimers>>
    /\ UNCHANGED asyncVars

\* case 'ready_toggle'
ReadyToggle(userId) ==
    LET i == findByUser(participants, userId)
    IN /\ inRoom(userId)
       /\ IF i = 0 THEN UNCHANGED participants
          ELSE participants' = [participants EXCEPT ![i].isReady = ~participants[i].isReady]
       /\ lastReply' = "none"
       /\ UNCHANGED <<roomStatus, roomGameType, roomMaxPlayers, gameStates, nUpdated,
                      nStarted, botTimers>>
       /\ UNCHANGED asyncVars

\* as StartGame, without the comparison of the sender with room.hostId
StartGameAnySender(userId, seed) ==
    /\ inRoom(userId)
    /\ Len(gameStates) < MaxGames
    /\ IF \A i \in DOMAIN participants :
             participants[i].isSpectator \/ participants[i].isReady
       THEN LET gameData == initializeGame(roomGameType, participants, seed)
                currentTurnParticipantId == idAt(participants, turnOrZero(gameData))
                initialGameData ==
                    [gameData EXCEPT
                        !.currentTurn = currentTurnParticipantId,
                        !.playerColors = playerColorsFor(roomGameType, participants)]
            IN /\ gameStates' = createGameState(gameStates, initialGameData,
                                                currentTurnParticipantId)
               /\ roomStatus' = "playing"
               /\ nStarted' = nStarted + 1
               /\ lastReply' = "none"
       ELSE /\ lastReply' = "Not all players are ready"
            /\ UNCHANGED <<roomStatus, gameStates, nStarted>>
    /\ UNCHANGED <<roomGameType, roomMaxPlayers, participants, nUpdated, botTimers>>
    /\ UNCHANGED asyncVars

\* case 'start_game'
StartGame(userId, seed) ==
    /\ inRoom(userId)
    /\ Len(gameStates) < MaxGames
    /\ IF HostId = userId
       THEN IF \A i \in DOMAIN participants :
                  participants[i].isSpectator \/ participants[i].isReady
            THEN LET gameData == initializeGame(roomGameType, participants, seed)
                     currentTurnParticipantId == idAt(participants, turnOrZero(gameData))
                     initialGameData ==
                         [gameData EXCEPT
                             !.currentTurn = currentTurnParticipantId,
                             !.playerColors = playerColorsFor(roomGameType, participants)]
                 IN /\ gameStates' = createGameState(gameStates, initialGameData,
                                                     currentTurnParticipantId)
                    /\ roomStatus' = "playing"
                    /\ nStarted' = nStarted + 1
                    /\ lastReply' = "none"
            ELSE /\ lastReply' = "Not all players are ready"
                 /\ UNCHANGED <<roomStatus, gameStates, nStarted>>
       ELSE /\ lastReply' = "Only the host can start the game"
            /\ UNCHANGED <<roomStatus, gameStates, nStarted>>
    /\ UNCHANGED <<roomGameType, roomMaxPlayers, participants, nUpdated, botTimers>>
    /\ UNCHANGED asyncVars

\* case 'rematch_request': the room waits again and nobody is ready; the
\* game-state records are left as they are
RematchRequest(userId) ==
    /\ inRoom(userId)
    /\ roomStatus' = "waiting"
    /\ participants' =
          [i \in DOMAIN participants |-> [participants[i] EXCEPT !.isReady = FALSE]]
    /\ lastReply' = "none"
    /\ UNCHANGED <<roomGameType, roomMaxPlayers, gameStates, nUpdated, nStarted,
                   botTimers>>
    /\ UNCHANGED asyncVars

\* participants.find(p => p.id === id), for an id that some participant has
findById(parts, id) == parts[CHOOSE i \in DOMAIN parts : parts[i].id = id]

\* the record getGameRoom returns
getGameRoom ==
    [gameType |-> roomGameType, status |-> roomStatus,
     maxPlayers |-> roomMaxPlayers, hostId |-> HostId]

\* what the callback handed to setTimeout captures: the connection ws, the
\* room record, newGameData and the participants that game_move fetched,
\* nextParticipant and gameState.turnNumber
botTimer(userId, room, newGameData, parts, turnNumber) ==
    [ws |-> userId, room |-> room, gameData |-> newGameData,
     participants |-> parts,
     nextParticipant |-> findById(parts, newGameData.currentTurn),
     turnNumber |-> turnNumber]

\* newGameData.currentTurn is set and is the id of a participant of type bot
nextIsBot(parts, currentTurn) ==
    /\ currentTurn # Undefined
    /\ \E i \in DOMAIN parts :
          parts[i].id = currentTurn /\ parts[i].playerType = "bot"

\* what game_move does with the outcome r of processMove: the catch of the
\* message handler replies with an error, otherwise the state is persisted
\* and game_updated is broadcast
persistMove(userId, gameState, r) ==
    IF r.threw
    THEN /\ gameStates' = [gameStates EXCEPT ![1].gameData = r.arg]
         /\ lastReply' = "Invalid message format"
         /\ UNCHANGED <<nUpdated, botTimers>>
    ELSE /\ gameStates' = [gameStates EXCEPT ![1] =
                 [gameData |-> r.ret,
                  currentTurn |-> r.ret.currentTurn,
                  turnNumber |-> gameState.turnNumber + 1]]
         /\ nUpdated' = nUpdated + 1
         /\ lastReply' = "none"
         \* "Handle bot turns"
         /\ botTimers' =
               IF nextIsBot(participants, r.ret.currentTurn)
               THEN Append(botTimers,
                           botTimer(userId, getGameRoom, r.ret, participants,
                                    gameState.turnNumber))
               ELSE botTimers

\* as GameMove, without the comparison of the sender with currentTurn
GameMoveAnySender(userId, move) ==
    /\ inRoom(userId)
    /\ gameStates # <<>>
    /\ LET gameState == getGameState(gameStates)
           i == findByUser(participants, userId)
       IN IF i # 0
          THEN persistMove(userId, gameState,
                           processMove(roomGameType, gameState.gameData, move,
                                       participants[i].id, participants))
          ELSE /\ lastReply' = "ignored"
               /\ UNCHANGED <<gameStates, nUpdated, botTimers>>
    /\ UNCHANGED <<roomStatus, roomGameType, roomMaxPlayers, participants, nStarted>>
    /\ UNCHANGED asyncVars

\* case 'game_move', with the catch of the message handler
GameMove(userId, move) ==
    /\ inRoom(userId)
    /\ gameStates # <<>>
    /\ LET gameState == getGameState(gameStates)
           i == findByUser(participants, userId)
       IN IF i # 0 /\ gameState.currentTurn = participants[i].id
          THEN persistMove(userId, gameState,
                           processMove(roomGameType, gameState.gameData, move,
                                       participants[i].id, participants))
          ELSE /\ lastReply' = "ignored"
               /\ UNCHANGED <<gameStates, nUpdated, botTimers>>
    /\ UNCHANGED <<roomStatus, roomGameType, roomMaxPlayers, participants, nStarted>>
    /\ UNCHANGED asyncVars

----------------------------------------------------------------------------
(* Chess specification: a chess room with its two players ready, the       *)
(* host's start_game and game_move messages from both connections.  One    *)
(* game is started in the room.                                            *)

Users == {"u1", "u2"}

Seeds == 0..(NumShuffles - 1)

readyPlayers(n) ==
    [i \in 1..n |-> [id |-> PIds[i], userId |-> <<"u1", "u2", "u3", "u4">>[i],
                     playerType |-> "human", isSpectator |-> FALSE, isReady |-> TRUE]]

\* squares a chess_move message may name:
\* f2 f3 e7 e5 g2 g4 d8 h4 e1 e2 e4
ChessSquares ==
    {Sq(6, 5), Sq(5, 5), Sq(1, 4), Sq(3, 4), Sq(6, 6), Sq(4, 6), Sq(0, 3),
     Sq(4, 7), Sq(7, 4), Sq(6, 4), Sq(4, 4)}

InitChess ==
    /\ roomStatus = "waiting"
    /\ roomGameType = "chess"
    /\ roomMaxPlayers = 2
    /\ participants = readyPlayers(2)
    /\ gameStates = <<>>
    /\ nUpdated = 0
    /\ nStarted = 0
    /\ lastReply = "none"
    /\ botTimers = <<>>
    /\ wsRoomId = [u \in Users |-> ThisRoom]
    /\ handlers = <<>>
    /\ roomBStates = <<>>
    /\ nUpdatedOther = 0

ChessStart == gameStates = <<>> /\ \E u \in Users : StartGame(u, 0)

ChessGameMove ==
    \E u \in Users, from \in ChessSquares, to \in ChessSquares :
        /\ gameStates # <<>>
        /\ getGameState(gameStates).turnNumber <= MaxPlies
        /\ GameMove(u, ChessMove(from, to))

NextChess == ChessStart \/ ChessGameMove

SpecChess == InitChess /\ [][NextChess]_vars

----------------------------------------------------------------------------
(* Properties of the chess engine, checked under SpecChess *)

started == gameStates # <<>>

\* the persisted game data of the room
data == getGameState(gameStates).gameData

\* a step in which a move was accepted and persisted
MoveAccepted ==
    /\ started
    /\ getGameState(gameStates)'.turnNumber = getGameState(gameStates).turnNumber + 1

\* the move of an accepted step
lastMove == data'.moveHistory[Len(data'.moveHistory)]

colorOfTurn(turn) == IF turn = 0 THEN "white" ELSE "black"
colorOfPiece(piece) == IF isUpper(piece) THEN "white" ELSE "black"
otherColor(color) == IF color = "white" THEN "black" ELSE "white"

piecesOf(board, color) ==
    Cardinality({p \in Rows \X Cols :
        board[p[1]][p[2]] # Null /\ colorOfPiece(board[p[1]][p[2]]) = color})

countOf(board, piece) ==
    Cardinality({p \in Rows \X Cols : board[p[1]][p[2]] = piece})

\* C2: when a move is rejected (the engine raised an error), the persisted
\* game-state record (gameData, currentTurn, turnNumber), which holds the
\* state object passed to the engine, is what it was before the call, and no
\* game_updated event is broadcast.
C2_RejectedMoveChangesNothing ==
    [][lastReply' = "Invalid message format"
        => (gameStates' = gameStates /\ nUpdated' = nUpdated)]_vars

C2_Witness ==
    /\ started
    /\ lastReply = "Invalid message format"
    /\ getGameState(gameStates).turnNumber > 1

\* C3: an accepted chess move has a piece on its source square, that piece
\* has the colour of the side to move (turn 0 = white, turn 1 = black), and
\* its destination does not hold a piece of the moved piece's colour.
C3_BadMovesRejected ==
    [][MoveAccepted =>
        LET piece == data.board[lastMove.data.from.row][lastMove.data.from.col]
            target == data.board[lastMove.data.to.row][lastMove.data.to.col]
        IN /\ piece # Null
           /\ colorOfPiece(piece) = colorOfTurn(data.turn)
           /\ ~(target # Null /\ colorOfPiece(target) = colorOfPiece(piece))]_vars

\* no piece of the colour has a move that isValidChessMove accepts
NoValidReply(gameData, color) ==
    \A r \in Rows, c \in Cols :
        (gameData.board[r][c] # Null /\ colorOfPiece(gameData.board[r][c]) = color)
        => \A tr \in Rows, tc \in Cols :
              ~isValidChessMove(gameData, Sq(r, c), Sq(tr, tc))

\* C4: after an accepted move that leaves the new side to move with its king
\* attacked and without any valid move, the game is over by checkmate and
\* the winner is the side that just moved.
C4_CheckmateDetected ==
    [][MoveAccepted =>
        ((isKingInCheck(data'.board, colorOfTurn(data'.turn))
           /\ NoValidReply(data', colorOfTurn(data'.turn)))
         => /\ data'.gameOver = TRUE
            /\ data'.endReason = "checkmate"
            /\ data'.winner = colorOfTurn(data.turn))]_vars

C4_Witness ==
    /\ started
    /\ isKingInCheck(data.board, colorOfTurn(data.turn))
    /\ NoValidReply(data, colorOfTurn(data.turn))
    /\ data.endReason = "checkmate"

\* the opening pawn move from (row 6, col 4) to (row 4, col 4)
OpeningPawnMove == ChessMove(Sq(6, 4), Sq(4, 4))

\* C5: on the initial chess state the pawn move (6,4) -> (4,4) by slot 0 is
\* accepted and yields the pawn on the destination, the source empty,
\* turn = 1, a move history of length 1 and empty captured lists; and every
\* accepted move toggles turn between 0 and 1 and appends exactly one entry,
\* the move, to moveHistory.
C5_OpeningMoveAndTurnToggle ==
    /\ [](started /\ data.moveHistory = <<>> /\ data.turn = 0
           /\ data.board = initializeChess(<<>>).board
          => LET r == processMove("chess", data, OpeningPawnMove,
                                  idAt(participants, 0), participants)
             IN /\ ~r.threw
                /\ r.ret.board[4][4] = "P"
                /\ r.ret.board[6][4] = Null
                /\ r.ret.turn = 1
                /\ Len(r.ret.moveHistory) = 1
                /\ r.ret.capturedPieces = [white |-> <<>>, black |-> <<>>])
    /\ [][MoveAccepted =>
            /\ data.turn \in {0, 1}
            /\ data'.turn = 1 - data.turn
            /\ Len(data'.moveHistory) = Len(data.moveHistory) + 1
            /\ SubSeq(data'.moveHistory, 1, Len(data.moveHistory)) = data.moveHistory]_vars

C5_Witness ==
    /\ started
    /\ data.moveHistory = <<OpeningPawnMove>>
    /\ data.board[4][4] = "P"
    /\ data.turn = 1

\* C6: each side has 16 pieces after initializeGame, and an accepted move
\* leaves the piece count of the side that moved (the side whose turn it
\* was) unchanged and lowers the other side's count by at most one.
C6_PieceCounts ==
    /\ [](started /\ data.moveHistory = <<>>
          => piecesOf(data.board, "white") = 16 /\ piecesOf(data.board, "black") = 16)
    /\ [][MoveAccepted =>
            LET mover == colorOfTurn(data.turn)
                other == otherColor(mover)
            IN /\ piecesOf(data'.board, mover) = piecesOf(data.board, mover)
               /\ piecesOf(data'.board, other) <= piecesOf(data.board, other)
               /\ piecesOf(data'.board, other) >= piecesOf(data.board, other) - 1]_vars

\* C7: the board of every reachable chess state holds exactly one white
\* king and exactly one black king.
C7_OneKingEach ==
    started => (countOf(data.board, "K") = 1 /\ countOf(data.board, "k") = 1)

boardPieces(board) ==
    Cardinality({p \in Rows \X Cols : board[p[1]][p[2]] # Null})

\* C8: pieces on the board plus the entries of capturedPieces.white and
\* capturedPieces.black are 32; an accepted capture appends the captured
\* piece once to the list of the capturing piece's colour and leaves the
\* other list alone, and an accepted move without capture changes no list.
C8_CapturedPiecesAccounted ==
    /\ [](started =>
            boardPieces(data.board) + Len(data.capturedPieces.white)
                + Len(data.capturedPieces.black) = 32)
    /\ [][MoveAccepted =>
            LET piece == data.board[lastMove.data.from.row][lastMove.data.from.col]
                target == data.board[lastMove.data.to.row][lastMove.data.to.col]
                color == colorOfPiece(piece)
            IN IF target # Null
               THEN /\ data'.capturedPieces[color] =
                           Append(data.capturedPieces[color], target)
                    /\ data'.capturedPieces[otherColor(color)] =
                           data.capturedPieces[otherColor(color)]
                    /\ boardPieces(data'.board) = boardPieces(data.board) - 1
               ELSE data'.capturedPieces = data.capturedPieces]_vars

C8_Witness ==
    /\ started
    /\ Len(data.capturedPieces.white) + Len(data.capturedPieces.black) > 0

----------------------------------------------------------------------------
(* Card specification: a room of one of the four card games with its       *)
(* players ready; the host starts the game with some shuffle, and the       *)
(* connections send moves.  A play_card names a card of the turn owner's    *)
(* hand.                                                                    *)

CardGames == {"hearts", "spades", "crazy8s", "gofish"}

\* numbers of players the card rooms are filled with
CardPlayerCounts(gameType) ==
    IF gameType \in {"hearts", "spades"} THEN {4}
    ELSE IF gameType = "crazy8s" THEN {2, 3}
    ELSE {2}

InitCards ==
    /\ roomStatus = "waiting"
    /\ roomGameType \in CardGames
    /\ roomMaxPlayers = 4
    /\ \E n \in CardPlayerCounts(roomGameType) : participants = readyPlayers(n)
    /\ gameStates = <<>>
    /\ nUpdated = 0
    /\ nStarted = 0
    /\ lastReply = "none"
    /\ botTimers = <<>>
    /\ wsRoomId = [u \in Users |-> ThisRoom]
    /\ handlers = <<>>
    /\ roomBStates = <<>>
    /\ nUpdatedOther = 0

CardStart == gameStates = <<>> /\ \E u \in Users, seed \in Seeds : StartGame(u, seed)

canMoveCards(gameType) ==
    /\ gameStates # <<>>
    /\ roomGameType = gameType
    /\ getGameState(gameStates).turnNumber <= MaxCardPlies

\* the hand of the turn owner
ownerHand ==
    LET gameState == getGameState(gameStates)
    IN IF gameState.currentTurn \in DOMAIN gameState.gameData.hands
       THEN gameState.gameData.hands[gameState.currentTurn]
       ELSE <<>>

HeartsPlay ==
    /\ canMoveCards("hearts")
    /\ \E u \in Users, card \in ToSet(ownerHand) : GameMove(u, PlayCard(card))

SpadesBid ==
    /\ canMoveCards("spades")
    /\ \E u \in Users, n \in {0, 3} : GameMove(u, Bid(n))

Crazy8sPlay ==
    /\ canMoveCards("crazy8s")
    /\ \E u \in Users, card \in ToSet(ownerHand) : GameMove(u, PlayCard(card))

Crazy8sDraw ==
    /\ canMoveCards("crazy8s")
    /\ \E u \in Users : GameMove(u, DrawCard)

Crazy8sPass ==
    /\ canMoveCards("crazy8s")
    /\ \E u \in Users : GameMove(u, PassMove)

GoFishAsk ==
    /\ canMoveCards("gofish")
    /\ \E u \in Users,
          targetPlayer \in DOMAIN getGameState(gameStates).gameData.hands,
          rank \in ToSet(ranks) :
            GameMove(u, AskForCards(targetPlayer, rank))

NextCards ==
    \/ CardStart
    \/ HeartsPlay
    \/ SpadesBid
    \/ Crazy8sPlay
    \/ Crazy8sDraw
    \/ Crazy8sPass
    \/ GoFishAsk

SpecCards == InitCards /\ [][NextCards]_vars

RECURSIVE concatAll(_, _)
\* the concatenation of f[keys[1]], f[keys[2]], ...
concatAll(f, keys) ==
    IF keys = <<>> THEN <<>>
    ELSE (IF Head(keys) \in DOMAIN f THEN f[Head(keys)] ELSE <<>>)
         \o concatAll(f, Tail(keys))

\* every card the state holds: hands, draw pile, discard pile, books, and
\* the cards of the current trick
heldCards(gameData) ==
    concatAll(gameData.hands, gameData.players)
    \o (IF gameData.gameType \in {"crazy8s", "gofish"} THEN gameData.drawPile ELSE <<>>)
    \o (IF gameData.gameType = "crazy8s" THEN gameData.discardPile ELSE <<>>)
    \o (IF gameData.gameType = "gofish"
        THEN concatAll(gameData.books, gameData.players) ELSE <<>>)
    \o (IF gameData.gameType = "hearts"
        THEN [i \in DOMAIN gameData.trick |-> gameData.trick[i].card] ELSE <<>>)

\* C1: in every state of a card game reached by moves that play cards of
\* the acting player's hand, the cards of all hands, the draw pile, the
\* discard pile and the books (and, counted in the claim's favour, the
\* cards lying in the current trick) are the 52 cards of the deck, each
\* exactly once.
C1_CardsConserved ==
    (started /\ roomGameType \in CardGames)
    => /\ Len(heldCards(data)) = 52
       /\ ToSet(heldCards(data)) = ToSet(createStandardDeck)

----------------------------------------------------------------------------
(* Room specification: a chess or checkers room as its host created it;    *)
(* another user joins as player or spectator, users toggle ready, the host *)
(* starts the game and the connections send moves.                         *)

\* squares a move message may name in the room specification: e2 e4 e7 e5
RoomChessSquares == {Sq(6, 4), Sq(4, 4), Sq(1, 4), Sq(3, 4)}

\* (5,0) and (4,1): a red man and the square in front of it
RoomCheckersSquares == {Sq(5, 0), Sq(4, 1)}

Init ==
    /\ roomStatus = "waiting"
    /\ roomGameType \in {"chess", "checkers"}
    /\ roomMaxPlayers \in {2, 4}
    /\ participants = addParticipant(<<>>, HostId, FALSE)
    /\ gameStates = <<>>
    /\ nUpdated = 0
    /\ nStarted = 0
    /\ lastReply = "none"
    /\ botTimers = <<>>
    /\ wsRoomId = [u \in Users |-> ThisRoom]
    /\ handlers = <<>>
    /\ roomBStates = <<>>
    /\ nUpdatedOther = 0

RoomJoin == \E u \in Users \ {HostId}, isSpectator \in BOOLEAN : Join(u, isSpectator)

RoomReadyToggle == \E u \in Users : ReadyToggle(u)

RoomStart == \E u \in Users : StartGame(u, 0)

canMoveRoom(gameType) ==
    /\ gameStates # <<>>
    /\ roomGameType = gameType
    /\ getGameState(gameStates).turnNumber <= MaxRoomPlies

RoomChessMove ==
    /\ canMoveRoom("chess")
    /\ \E u \in Users, from \in RoomChessSquares, to \in RoomChessSquares :
          GameMove(u, ChessMove(from, to))

RoomCheckersMove ==
    /\ canMoveRoom("checkers")
    /\ \E u \in Users, from \in RoomCheckersSquares, to \in RoomCheckersSquares :
          GameMove(u, CheckersMove(from, to, <<>>))

RoomRematch == \E u \in Users : RematchRequest(u)

Next ==
    \/ RoomJoin
    \/ RoomReadyToggle
    \/ RoomStart
    \/ RoomRematch
    \/ RoomChessMove
    \/ RoomCheckersMove

Spec == Init /\ [][Next]_vars

\* players[turn] of a game state
playerAtTurn(gameData) ==
    IF gameData.turn + 1 \in DOMAIN gameData.players
    THEN gameData.players[gameData.turn + 1]
    ELSE Undefined

\* C9: in every chess or checkers game state produced by start_game or by
\* an accepted move, currentTurn (in the game data and in the persisted
\* record) is players[turn] of the state's own player list.
C9_CurrentTurnIsPlayersTurn ==
    (started /\ data.gameType \in {"chess", "checkers"})
    => /\ data.currentTurn = playerAtTurn(data)
       /\ getGameState(gameStates).currentTurn = playerAtTurn(data)

\* C10: the persisted currentTurn of a started game is the id of a
\* non-spectator participant of the room.
C10_CurrentTurnIsAPlayer ==
    started =>
        \E i \in DOMAIN participants :
            /\ ~participants[i].isSpectator
            /\ participants[i].id = getGameState(gameStates).currentTurn

----------------------------------------------------------------------------
(* Turn rotation *)

\* 1-based seat of a participant id among the non-spectators, 0 when it has none
seatOf(parts, id) ==
    LET ns == nonSpectators(parts)
        hits == {i \in DOMAIN ns : ns[i].id = id}
    IN IF hits = {} THEN 0 ELSE CHOOSE i \in hits : \A j \in hits : i <= j

\* C11: in a card game with N non-spectator players, an accepted move by the
\* player at seat i makes the player at seat (i + 1) mod N the turn owner.
C11_CardTurnRotates ==
    [][(MoveAccepted /\ roomGameType \in CardGames)
        => LET ns == nonSpectators(participants)
               i == seatOf(participants, getGameState(gameStates).currentTurn)
           IN /\ i # 0
              /\ getGameState(gameStates)'.currentTurn = ns[(i % Len(ns)) + 1].id]_vars

\* as getNextTurn, without the filter on isSpectator
getNextTurnAllSeats(gameType, parts, currentPlayerId) ==
    LET players == parts
        hits == {i \in DOMAIN players : players[i].id = currentPlayerId}
    IN IF hits = {} THEN Undefined
       ELSE LET currentIndex == (CHOOSE i \in hits : \A j \in hits : i <= j) - 1
                nextIndex == (currentIndex + 1) % Len(players)
            IN players[nextIndex + 1].id

getNextTurn(gameType, parts, currentPlayerId) ==
    LET players == nonSpectators(parts)
        hits == {i \in DOMAIN players : players[i].id = currentPlayerId}
    IN IF hits = {} THEN Undefined
       ELSE LET currentIndex == (CHOOSE i \in hits : \A j \in hits : i <= j) - 1
                nextIndex == (currentIndex + 1) % Len(players)
            IN players[nextIndex + 1].id

RECURSIVE nextTurnTimes(_, _, _)
\* getNextTurn applied n times, starting from id
nextTurnTimes(parts, id, n) ==
    IF n = 0 THEN id
    ELSE nextTurnTimes(parts, getNextTurn(roomGameType, parts, id), n - 1)

\* C12: for the participants of the room, getNextTurn of the non-spectator
\* at seat i is the non-spectator at the next seat (the first one after the
\* last), N applications from a non-spectator return to it, and getNextTurn
\* of an id that is no non-spectator participant is undefined.
C12_GetNextTurnCycles ==
    LET ns == nonSpectators(participants)
        N == Len(ns)
    IN /\ \A i \in DOMAIN ns :
            /\ getNextTurn(roomGameType, participants, ns[i].id) = ns[(i % N) + 1].id
            /\ nextTurnTimes(participants, ns[i].id, N) = ns[i].id
       /\ \A k \in DOMAIN PIds :
            seatOf(participants, PIds[k]) = 0
            => getNextTurn(roomGameType, participants, PIds[k]) = Undefined

\* two players with a spectator seated between them
C12_Witness ==
    /\ Len(participants) = 3
    /\ ~participants[1].isSpectator
    /\ participants[2].isSpectator
    /\ ~participants[3].isSpectator

----------------------------------------------------------------------------
(* Properties of the card engine, checked under SpecCards *)

\* the stored state is the one start_game created: no move was accepted yet
freshlyDealt == started /\ getGameState(gameStates).turnNumber = 1

\* C13: the crazy8s state initializeGame creates has 7 cards in every hand
\* for at most 2 players and 5 otherwise, one card on the discard pile, the
\* remaining cards on the draw pile (37 for 2 players), phase "playing", and
\* holds each of the 52 cards exactly once.
C13_Crazy8sDeal ==
    (freshlyDealt /\ roomGameType = "crazy8s")
    => LET n == Len(data.players)
           perPlayer == IF n <= 2 THEN 7 ELSE 5
       IN /\ \A p \in ToSet(data.players) : Len(data.hands[p]) = perPlayer
          /\ Len(data.discardPile) = 1
          /\ Len(data.drawPile) = 52 - n * perPlayer - 1
          /\ (n = 2 => Len(data.drawPile) = 37)
          /\ data.phase = "playing"
          /\ Len(heldCards(data)) = 52
          /\ ToSet(heldCards(data)) = ToSet(createStandardDeck)

C13_Witness ==
    /\ freshlyDealt
    /\ roomGameType = "crazy8s"
    /\ Len(data.players) = 2
    /\ Len(data.hands["p1"]) = 7

\* C14: in every crazy8s state, play_card of a card of a player's hand
\* returns a state in which that hand is the old one without that card, the
\* card is the last one of the discard pile, whose other cards are as
\* before, and the other hands and the draw pile are unchanged.
C14_Crazy8sPlayCard ==
    (started /\ roomGameType = "crazy8s")
    => \A p \in ToSet(data.players) : \A card \in ToSet(data.hands[p]) :
          LET r == processCrazy8sMove(data, PlayCard(card), p)
          IN /\ ~r.threw
             /\ Len(r.ret.hands[p]) = Len(data.hands[p]) - 1
             /\ ToSet(r.ret.hands[p]) = ToSet(data.hands[p]) \ {card}
             /\ r.ret.discardPile = Append(data.discardPile, card)
             /\ \A q \in ToSet(data.players) \ {p} : r.ret.hands[q] = data.hands[q]
             /\ r.ret.drawPile = data.drawPile

\* a crazy8s state after a play_card of the turn owner
C14_Witness ==
    /\ started
    /\ roomGameType = "crazy8s"
    /\ Len(data.discardPile) = 2
    /\ Len(data.hands["p1"]) = 6

\* C15: in hearts, spades and crazy8s the engine raises an error for a
\* play_card of the turn owner that names a card which is not in its hand.
C15_ForeignCardRejected ==
    (started /\ roomGameType \in {"hearts", "spades", "crazy8s"})
    => \A card \in ToSet(createStandardDeck) \ ToSet(ownerHand) :
          processGameSpecificMove(roomGameType, data, PlayCard(card),
                                  getGameState(gameStates).currentTurn).threw

\* the gofish state with its draw pile used up
drawPileUsedUp(gameData) == [gameData EXCEPT !.drawPile = <<>>]

\* the hands of gameData with `card` appended to the hand of player p
handsWith(gameData, p, card) == [gameData.hands EXCEPT ![p] = Append(@, card)]

\* C16: in every gofish state, when the asked player holds no card of the
\* requested rank the asker's hand gains the last (top) card of the draw
\* pile, the draw pile loses that card and the other hands are unchanged;
\* with an empty draw pile the move changes no hand and no pile.
C16_GoFishDraw ==
    (started /\ roomGameType = "gofish")
    => \A p \in ToSet(data.players), t \in ToSet(data.players), rank \in ToSet(ranks) :
          (\A i \in DOMAIN data.hands[t] : ~startsWith(data.hands[t][i], rank))
          => LET n == Len(data.drawPile)
                 r == processGoFishMove(data, AskForCards(t, rank), p)
                 e == processGoFishMove(drawPileUsedUp(data), AskForCards(t, rank), p)
             IN /\ n > 0
                /\ ~r.threw
                /\ r.ret.hands = handsWith(data, p, data.drawPile[n])
                /\ r.ret.drawPile = SubSeq(data.drawPile, 1, n - 1)
                /\ r.ret.books = data.books
                /\ ~e.threw
                /\ e.ret.hands = data.hands
                /\ e.ret.drawPile = <<>>
                /\ e.ret.books = data.books

\* a gofish state after an ask that found no card: the asker drew one
C16_Witness ==
    /\ started
    /\ roomGameType = "gofish"
    /\ Len(data.hands["p1"]) = 8
    /\ Len(data.hands["p2"]) = 7
    /\ Len(data.drawPile) = 37

RECURSIVE playWholeHand(_, _)
\* the state after player p has played the cards of its hand one after
\* another, first card first
playWholeHand(gameData, p) ==
    IF gameData.hands[p] = <<>> THEN gameData
    ELSE playWholeHand(
            processCrazy8sMove(gameData, PlayCard(Head(gameData.hands[p])), p).ret, p)

\* C17: the crazy8s state in which the turn owner has played its last card
\* is terminal: gameOver is set, the winner is that player and there is an
\* end reason.
C17_Crazy8sHandEmptyEndsGame ==
    (started /\ roomGameType = "crazy8s"
        /\ getGameState(gameStates).currentTurn \in DOMAIN data.hands)
    => LET p == getGameState(gameStates).currentTurn
           final == playWholeHand(data, p)
       IN /\ final.hands[p] = <<>>
          /\ final.gameOver
          /\ final.winner = p
          /\ final.endReason # Undefined

----------------------------------------------------------------------------
(* Properties of the game_move handler, checked under Spec *)

\* the connection of user u has a participant, and it is not the turn owner
notTurnOwner(u) ==
    LET i == findByUser(participants, u)
    IN /\ started
       /\ i # 0
       /\ participants[i].id # getGameState(gameStates).currentTurn

\* the move messages of the room specification for the room's game
RoomMoves ==
    IF roomGameType = "chess"
    THEN {ChessMove(from, to) : from \in RoomChessSquares, to \in RoomChessSquares}
    ELSE {CheckersMove(from, to, <<>>) :
             from \in RoomCheckersSquares, to \in RoomCheckersSquares}

\* C20: a game_move of a connection whose participant is not the persisted
\* turn owner is dropped: the game-state records are as before, no
\* game_updated event is broadcast and no bot timer is set.  Stated
\* contrapositively: a step that is not such a drop is no game_move of a
\* connection that is not the turn owner.
C20_NotTurnOwnerChangesNothing ==
    [][\/ /\ lastReply' = "ignored"
          /\ UNCHANGED <<gameStates, nUpdated, botTimers>>
       \/ \A u \in Users :
             notTurnOwner(u) => \A move \in RoomMoves : ~GameMove(u, move)]_vars

\* a game_move was dropped while every user had a participant in the room
C20_Witness ==
    /\ started
    /\ lastReply = "ignored"
    /\ \A u \in Users : findByUser(participants, u) # 0
    /\ \E u \in Users : notTurnOwner(u)

----------------------------------------------------------------------------
(* Bot move selection (server/services/ai-service.ts).  Math.random is a    *)
(* free choice, so a selector yields the set of moves it can return; the   *)
(* result null is NullMove.                                                *)

NullMove == [type |-> Null, data |-> Null]

Difficulties == {"easy", "medium", "hard"}

inBoard(row, col) == row >= 0 /\ row < 8 /\ col >= 0 /\ col < 8

RECURSIVE concatSeqs(_)
\* moves.push(...pieceMoves) over the squares in loop order
concatSeqs(seqs) ==
    IF seqs = <<>> THEN <<>> ELSE Head(seqs) \o concatSeqs(Tail(seqs))

isOpponentPiece(piece1, piece2) == isUpper(piece1) # isUpper(piece2)

isCapture(gameData, move) ==
    gameData.board[move.data.to.row][move.data.to.col] # Null

\* "Simplified move generation - just try adjacent squares"
generatePieceMoves(board, row, col, piece) ==
    LET targets == [k \in 1..9 |-> Sq(row + ((k - 1) \div 3) - 1, col + ((k - 1) % 3) - 1)]
        open(sq) ==
            /\ inBoard(sq.row, sq.col)
            /\ \/ board[sq.row][sq.col] = Null
               \/ isOpponentPiece(piece, board[sq.row][sq.col])
        kept == SelectSeq(targets, open)
    IN [i \in DOMAIN kept |->
           [type |-> "move", data |-> [from |-> Sq(row, col), to |-> kept[i]]]]

getValidChessMoves(gameData) ==
    LET board == gameData.board
        isWhiteTurn == gameData.turn = 0
    IN concatSeqs([k \in 1..64 |->
           LET row == (k - 1) \div 8
               col == (k - 1) % 8
               piece == board[row][col]
           IN IF piece = Null THEN <<>>
              ELSE IF isUpper(piece) # isWhiteTurn THEN <<>>
              ELSE generatePieceMoves(board, row, col, piece)])

\* twice the score of evaluateChessMoves (the centre is at 3.5)
chessScore(gameData, move) ==
    (IF isCapture(gameData, move) THEN 20 ELSE 0)
    - (Abs(2 * move.data.to.row - 7) + Abs(2 * move.data.to.col - 7))

\* the first move with the highest score
evaluateChessMoves(gameData, moves) ==
    LET best == CHOOSE i \in DOMAIN moves :
                    /\ \A j \in DOMAIN moves :
                          chessScore(gameData, moves[j]) <= chessScore(gameData, moves[i])
                    /\ \A j \in 1..(i - 1) :
                          chessScore(gameData, moves[j]) < chessScore(gameData, moves[i])
    IN moves[best]

getChessBotMove(gameData, difficulty) ==
    LET validMoves == getValidChessMoves(gameData)
        capturing(move) == isCapture(gameData, move)
        captures == SelectSeq(validMoves, capturing)
    IN IF Len(validMoves) = 0 THEN {NullMove}
       ELSE IF difficulty = "medium"
       THEN IF Len(captures) > 0 THEN ToSet(captures) ELSE ToSet(validMoves)
       ELSE IF difficulty = "hard"
       THEN {evaluateChessMoves(gameData, validMoves)}
       ELSE ToSet(validMoves)

\* "Normal moves", then "Capture moves (simplified)"
generateCheckerMoves(board, row, col, piece) ==
    LET isRed == toLowerCase(piece) = "r"
        direction == IF isRed THEN -1 ELSE 1
        dcs == <<-1, 1>>
        free(dc) ==
            /\ inBoard(row + direction, col + dc)
            /\ board[row + direction][col + dc] = Null
        jump(dc) ==
            /\ inBoard(row + direction * 2, col + dc * 2)
            /\ board[row + direction * 2][col + dc * 2] = Null
            /\ board[row + direction][col + dc] # Null
            /\ isOpponentPiece(piece, board[row + direction][col + dc])
        steps == SelectSeq(dcs, free)
        jumps == SelectSeq(dcs, jump)
    IN [i \in DOMAIN steps |->
           [type |-> "move",
            data |-> [from |-> Sq(row, col),
                      to |-> Sq(row + direction, col + steps[i]),
                      captures |-> <<>>]]]
       \o
       [i \in DOMAIN jumps |->
           [type |-> "move",
            data |-> [from |-> Sq(row, col),
                      to |-> Sq(row + direction * 2, col + jumps[i] * 2),
                      captures |-> <<Sq(row + direction, col + jumps[i])>>]]]

getValidCheckersMove(gameData) ==
    LET board == gameData.board
        isRedTurn == gameData.turn = 0
    IN concatSeqs([k \in 1..64 |->
           LET row == (k - 1) \div 8
               col == (k - 1) % 8
               piece == board[row][col]
           IN IF piece = Null THEN <<>>
              ELSE IF (toLowerCase(piece) = "r") # isRedTurn THEN <<>>
              ELSE generateCheckerMoves(board, row, col, piece)])

checkersScore(gameData, move) ==
    100 * Len(move.data.captures)
    + 5 * (IF gameData.turn = 0
           THEN move.data.from.row - move.data.to.row
           ELSE move.data.to.row - move.data.from.row)

\* the first move with the highest score
evaluateCheckersMoves(gameData, moves) ==
    LET best == CHOOSE i \in DOMAIN moves :
                    /\ \A j \in DOMAIN moves :
                          checkersScore(gameData, moves[j]) <= checkersScore(gameData, moves[i])
                    /\ \A j \in 1..(i - 1) :
                          checkersScore(gameData, moves[j]) < checkersScore(gameData, moves[i])
    IN moves[best]

getCheckersBotMove(gameData, difficulty) ==
    LET validMoves == getValidCheckersMove(gameData)
        capturing(move) == Len(move.data.captures) > 0
        captures == SelectSeq(validMoves, capturing)
    IN IF Len(validMoves) = 0 THEN {NullMove}
       ELSE IF difficulty = "medium"
       THEN IF Len(captures) > 0 THEN ToSet(captures) ELSE ToSet(validMoves)
       ELSE IF difficulty = "hard"
       THEN {evaluateCheckersMoves(gameData, validMoves)}
       ELSE ToSet(validMoves)

\* a selector that ends with a TypeError (a property of undefined is read)
ThrownMove == [type |-> "TypeError", data |-> Null]

\* gameData.players[gameData.turn!]: undefined when turn is not set
currentPlayerId(gameData) ==
    IF gameData.turn # NoNumber /\ gameData.turn + 1 \in DOMAIN gameData.players
    THEN gameData.players[gameData.turn + 1]
    ELSE Undefined

\* gameData.hands[currentPlayerId] is an array
hasHand(gameData) == currentPlayerId(gameData) \in DOMAIN gameData.hands

\* card.includes(suit)
includes(card, suit) == \E i \in DOMAIN card : card[i] = suit

\* card.slice(-1) and card.slice(0, -1)
suitOf(card) == card[Len(card)]
rankOf(card) == SubSeq(card, 1, Len(card) - 1)

PlayCardSuit(card, newSuit) ==
    [type |-> "play_card",
     data |-> [card |-> card, newSuit |-> newSuit, bid |-> Undefined]]

\* hand[Math.floor(Math.random() * hand.length)]
anyCard(hand) == {PlayCard(c) : c \in ToSet(hand)}

getHeartsBotMove(gameData, difficulty) ==
    IF ~hasHand(gameData) THEN {NullMove}
    ELSE LET hand == gameData.hands[currentPlayerId(gameData)]
             safe(card) == ~includes(card, "H") /\ card # <<"Q", "S">>
             safeCards == SelectSeq(hand, safe)
         IN IF Len(hand) = 0 THEN {NullMove}
            ELSE IF difficulty = "medium"
            THEN IF Len(safeCards) > 0 THEN anyCard(safeCards) ELSE anyCard(hand)
            ELSE IF difficulty = "hard"
            \* evaluateHeartsMove
            THEN {PlayCard(IF Len(safeCards) > 0 THEN safeCards[1] ELSE hand[1])}
            ELSE anyCard(hand)

getSpadesBotMove(gameData, difficulty) ==
    IF ~hasHand(gameData) THEN {ThrownMove}
    ELSE LET hand == gameData.hands[currentPlayerId(gameData)]
             isSpade(card) == includes(card, "S")
             isHonor(card) == \E rank \in {<<"A">>, <<"K">>, <<"Q">>, <<"J">>} :
                                  startsWith(card, rank)
             spades == Len(SelectSeq(hand, isSpade))
             honors == Len(SelectSeq(hand, isHonor))
             bid == Max(1, (spades \div 2) + (honors \div 3))
             clamp(n) == Max(0, IF n > 13 THEN 13 ELSE n)
         IN IF gameData.phase = "bidding"
            THEN IF difficulty = "easy"
                 THEN {Bid(clamp(bid + d)) : d \in {-1, 0, 1}}
                 ELSE {Bid(clamp(bid))}
            ELSE IF Len(hand) = 0 THEN {PlayCard(Undefined)} ELSE anyCard(hand)

getCrazy8sBotMove(gameData, difficulty) ==
    IF ~hasHand(gameData) THEN {ThrownMove}
    ELSE LET hand == gameData.hands[currentPlayerId(gameData)]
             topCard == gameData.discardPile[Len(gameData.discardPile)]
             topSuit == IF gameData.currentSuit \in {Null, Undefined}
                        THEN suitOf(topCard) ELSE gameData.currentSuit
             playable(card) ==
                 \/ startsWith(card, <<"8">>)
                 \/ suitOf(card) = topSuit
                 \/ rankOf(card) = rankOf(topCard)
             playableCards == SelectSeq(hand, playable)
             count(suit) == Len(SelectSeq(hand, LAMBDA card : suitOf(card) = suit))
             bestSuits == {suit \in ToSet(suits) :
                              \A other \in ToSet(suits) : count(other) <= count(suit)}
         IN IF Len(playableCards) > 0
            THEN UNION {IF startsWith(c, <<"8">>)
                        THEN {PlayCardSuit(c, newSuit) : newSuit \in bestSuits}
                        ELSE {PlayCardSuit(c, Null)} : c \in ToSet(playableCards)}
            ELSE {DrawCard}

getGoFishBotMove(gameData, difficulty) ==
    IF ~hasHand(gameData) THEN {ThrownMove}
    ELSE LET hand == gameData.hands[currentPlayerId(gameData)]
             handRanks == {rankOf(card) : card \in ToSet(hand)}
             otherPlayers == ToSet(gameData.players) \ {currentPlayerId(gameData)}
         IN {AskForCards(targetPlayer, rank) :
                targetPlayer \in (IF otherPlayers = {} THEN {Undefined} ELSE otherPlayers),
                rank \in (IF handRanks = {} THEN {<<>>} ELSE handRanks)}

\* the selectors of the six games
getBotMove(gameType, gameData, difficulty) ==
    CASE gameType = "chess" -> getChessBotMove(gameData, difficulty)
      [] gameType = "checkers" -> getCheckersBotMove(gameData, difficulty)
      [] gameType = "hearts" -> getHeartsBotMove(gameData, difficulty)
      [] gameType = "spades" -> getSpadesBotMove(gameData, difficulty)
      [] gameType = "crazy8s" -> getCrazy8sBotMove(gameData, difficulty)
      [] gameType = "gofish" -> getGoFishBotMove(gameData, difficulty)
      [] OTHER -> {NullMove}

----------------------------------------------------------------------------
(* Checkers specification: a checkers room with its two players ready, the *)
(* host's start_game and checkers_move messages from both connections.     *)

\* squares a checkers_move message may name: the red man on (5,0), the
\* black man on (2,3) and the squares in front of them
CheckersSquares == {Sq(5, 0), Sq(4, 1), Sq(2, 3), Sq(3, 2)}

InitCheckers ==
    /\ roomStatus = "waiting"
    /\ roomGameType = "checkers"
    /\ roomMaxPlayers = 2
    /\ participants = readyPlayers(2)
    /\ gameStates = <<>>
    /\ nUpdated = 0
    /\ nStarted = 0
    /\ lastReply = "none"
    /\ botTimers = <<>>
    /\ wsRoomId = [u \in Users |-> ThisRoom]
    /\ handlers = <<>>
    /\ roomBStates = <<>>
    /\ nUpdatedOther = 0

CheckersStart == gameStates = <<>> /\ \E u \in Users : StartGame(u, 0)

CheckersGameMove ==
    \E u \in Users, from \in CheckersSquares, to \in CheckersSquares :
        /\ gameStates # <<>>
        /\ getGameState(gameStates).turnNumber <= MaxPlies
        /\ GameMove(u, CheckersMove(from, to, <<>>))

NextCheckers == CheckersStart \/ CheckersGameMove

SpecCheckers == InitCheckers /\ [][NextCheckers]_vars

\* the side to move (red at turn 0, black at turn 1) has a man with an
\* opposing man diagonally in front of it and an empty square behind that
jumpExists(board, turn) ==
    LET own == IF turn = 0 THEN "r" ELSE "b"
        opp == IF turn = 0 THEN "b" ELSE "r"
        direction == IF turn = 0 THEN -1 ELSE 1
    IN \E row \in Rows, col \in Cols, dc \in {-1, 1} :
          /\ board[row][col] = own
          /\ inBoard(row + direction * 2, col + dc * 2)
          /\ board[row + direction][col + dc] = opp
          /\ board[row + direction * 2][col + dc * 2] = Null

\* C18: on a checkers board where the side to move has a jump, every move
\* the generator offers is a capture, and so is every move getBotMove can
\* return at any difficulty.
C18_CheckersBotMustCapture ==
    (started /\ jumpExists(data.board, data.turn))
    => /\ \A i \in DOMAIN getValidCheckersMove(data) :
             Len(getValidCheckersMove(data)[i].data.captures) > 0
       /\ \A difficulty \in Difficulties :
             \A move \in getBotMove("checkers", data, difficulty) :
                move.type # Null /\ Len(move.data.captures) > 0

\* C19: in every chess state that is not over, each move getBotMove can
\* return at easy difficulty is accepted by isValidChessMove and moves a
\* piece of the side to move.
C19_ChessBotMoveIsValid ==
    (started /\ ~data.gameOver)
    => \A move \in getBotMove("chess", data, "easy") :
          move.type # Null
          => /\ isValidChessMove(data, move.data.from, move.data.to)
             /\ colorOfPiece(data.board[move.data.from.row][move.data.from.col])
                    = colorOfTurn(data.turn)


----------------------------------------------------------------------------
(* Replies of the game_move handler, checked under Spec *)

\* the messages of the error events the WebSocket handlers send
errorEvents ==
    {"Invalid message format", "Not all players are ready",
     "Only the host can start the game"}

\* C21: every game_move that is rejected, because the sender is not the
\* turn owner or because the engine rejects the move, sends an error event
\* to the sender.
C21_RejectedMoveGetsError ==
    [][\A u \in Users, move \in RoomMoves :
          (started /\ GameMove(u, move) /\ ~MoveAccepted)
          => lastReply' \in errorEvents]_vars


----------------------------------------------------------------------------
(* Properties of the start_game handler, checked under Spec *)

\* every non-spectator participant of the room is ready
allPlayersReady ==
    \A i \in DOMAIN participants : isPlayer(participants[i]) => participants[i].isReady

\* C28: start_game creates a game state, sets the room to 'playing' and
\* broadcasts game_started only when the sender is the room's host and
\* every non-spectator participant is ready; otherwise the room status, the
\* game states and the participants stay as they are and the sender gets an
\* error event.
C28_StartOnlyByHostAllReady ==
    [][\A u \in Users :
          StartGame(u, 0)
          => IF u = HostId /\ allPlayersReady
             THEN /\ Len(gameStates') = Len(gameStates) + 1
                  /\ roomStatus' = "playing"
                  /\ nStarted' = nStarted + 1
             ELSE /\ UNCHANGED <<roomStatus, gameStates, participants, nStarted>>
                  /\ lastReply' \in errorEvents]_vars

\* the host has started a game with a second player in the room, and a
\* start_game of another sender was answered with an error
C28_Witness ==
    /\ nStarted = 1
    /\ roomStatus = "playing"
    /\ Len(nonSpectators(participants)) = 2
    /\ lastReply = "Only the host can start the game"

\* GAME_DEFINITIONS[gameType].minPlayers .. maxPlayers
playerCountRange(gameType) ==
    CASE gameType \in {"chess", "checkers"} -> 2..2
      [] gameType \in {"hearts", "spades"} -> 4..4
      [] gameType = "crazy8s" -> 2..8
      [] gameType = "gofish" -> 2..6

\* C29: a game is started (game state created, room set to 'playing') only
\* when the number of non-spectator participants is within the range of
\* the room's game type.
C29_StartNeedsPlayerCount ==
    [][nStarted' > nStarted
       => Len(nonSpectators(participants)) \in playerCountRange(roomGameType)]_vars


----------------------------------------------------------------------------
(* Properties of the game-state records, checked under Spec *)

\* C30: the storage holds at most one game-state record of the room, and
\* when start_game has created a game state (also after a rematch)
\* getGameState returns the newly initialized game, the one moves are
\* applied to.
C30_OneGameStateRecord ==
    /\ [](Len(gameStates) <= 1)
    /\ [][nStarted' > nStarted
          => getGameState(gameStates') = gameStates'[Len(gameStates')]]_vars


----------------------------------------------------------------------------
(* Bot rooms: a chess room whose host plays against bot seats.  The        *)
(* game_move handler is taken one await at a time, so that two handlers    *)
(* can interleave; the callback of a bot timer runs when the timer fires.  *)
(* Within the bounds no piece is captured, so the capturedPieces arrays    *)
(* that game data objects share are never changed.                         *)

\* a bot seat: a participant of type 'bot' with a botDifficulty, ready and
\* without a user
addBot(parts, difficulty) ==
    Append(parts, [id |-> PIds[Len(parts) + 1], userId |-> Null,
                   playerType |-> "bot", isSpectator |-> FALSE,
                   isReady |-> TRUE, botDifficulty |-> difficulty])

\* the game state of the other room: a chess game of two other players
otherRoomState ==
    createGameState(<<>>,
        [initializeChess(<<"q1", "q2">>) EXCEPT
            !.currentTurn = "q1",
            !.playerColors = [k \in {"q1", "q2"} |->
                                 IF k = "q2" THEN "black" ELSE "white"]],
        "q1")

\* the chess_move messages of the host: e2-e4, d2-d4 and the invalid e2-e5
BotChessMoves ==
    {ChessMove(Sq(6, 4), Sq(4, 4)), ChessMove(Sq(6, 3), Sq(4, 3)),
     ChessMove(Sq(6, 4), Sq(3, 4))}

InitBots ==
    /\ roomStatus = "waiting"
    /\ roomGameType = "chess"
    /\ roomMaxPlayers = 4
    /\ \E n \in 1..MaxBots, difficulty \in {"easy", "hard"} :
          participants =
              LET host == readyPlayers(1)
                  one == addBot(host, difficulty)
              IN IF n = 1 THEN one ELSE addBot(one, difficulty)
    /\ gameStates = <<>>
    /\ nUpdated = 0
    /\ nStarted = 0
    /\ lastReply = "none"
    /\ botTimers = <<>>
    /\ wsRoomId = [u \in Users |-> ThisRoom]
    /\ handlers = <<>>
    /\ roomBStates = otherRoomState
    /\ nUpdatedOther = 0

\* the sequence without its k-th element
removeAt(seq, k) == SubSeq(seq, 1, k - 1) \o SubSeq(seq, k + 1, Len(seq))

\* the constant room of a handler before getGameRoom has returned
NoRoom ==
    [gameType |-> Undefined, status |-> Undefined, maxPlayers |-> 0,
     hostId |-> Undefined]

\* case 'game_move', up to the first await: getGameState is called.  The
\* constants room, participants and newGameData are not assigned yet:
\* their slots hold NoRoom, no participants and the game data just read.
MoveReceive(userId, move) ==
    /\ inRoom(userId)
    /\ gameStates # <<>>
    /\ handlers' = Append(handlers,
                          [ws |-> userId, move |-> move,
                           gameState |-> getGameState(gameStates),
                           room |-> NoRoom, participants |-> <<>>,
                           newGameData |-> getGameState(gameStates).gameData,
                           pc |-> "getGameRoom"])
    /\ UNCHANGED <<roomStatus, roomGameType, roomMaxPlayers, participants,
                   gameStates, nUpdated, nStarted, lastReply, botTimers,
                   wsRoomId, roomBStates, nUpdatedOther>>

\* game_move after the first await: getGameRoom is called
MoveGetRoom(k) ==
    /\ k \in DOMAIN handlers
    /\ handlers[k].pc = "getGameRoom"
    /\ handlers' = [handlers EXCEPT ![k].room = getGameRoom,
                                    ![k].pc = "getParticipantsByRoom"]
    /\ UNCHANGED <<roomStatus, roomGameType, roomMaxPlayers, participants,
                   gameStates, nUpdated, nStarted, lastReply, botTimers,
                   wsRoomId, roomBStates, nUpdatedOther>>

\* game_move after the second await: getParticipantsByRoom is called
MoveGetParticipants(k) ==
    /\ k \in DOMAIN handlers
    /\ handlers[k].pc = "getParticipantsByRoom"
    /\ handlers' = [handlers EXCEPT ![k].participants = participants,
                                    ![k].pc = "processMove"]
    /\ UNCHANGED <<roomStatus, roomGameType, roomMaxPlayers, participants,
                   gameStates, nUpdated, nStarted, lastReply, botTimers,
                   wsRoomId, roomBStates, nUpdatedOther>>

\* what the handler h does with the outcome r of processMove: the catch of
\* the message handler replies with an error, otherwise updateGameState is
\* called, which calls getGameState before its own await
applied(k, r) ==
    IF r.threw
    THEN /\ handlers' = removeAt(handlers, k)
         /\ lastReply' = "Invalid message format"
    ELSE /\ handlers' = [handlers EXCEPT ![k].newGameData = r.ret,
                                         ![k].pc = "updateGameState"]
         /\ UNCHANGED lastReply

\* game_move after the third await: the turn-owner test and processMove
MoveApply(k) ==
    /\ k \in DOMAIN handlers
    /\ handlers[k].pc = "processMove"
    /\ LET h == handlers[k]
           i == findByUser(h.participants, h.ws)
       IN IF i # 0 /\ h.gameState.currentTurn = h.participants[i].id
          THEN applied(k, processMove(h.room.gameType, h.gameState.gameData,
                                      h.move, h.participants[i].id,
                                      h.participants))
          ELSE /\ handlers' = removeAt(handlers, k)
               /\ lastReply' = "ignored"
    /\ UNCHANGED <<roomStatus, roomGameType, roomMaxPlayers, participants,
                   gameStates, nUpdated, nStarted, botTimers,
                   wsRoomId, roomBStates, nUpdatedOther>>

\* updateGameState after its await: the record found before is replaced
MoveWrite(k) ==
    /\ k \in DOMAIN handlers
    /\ handlers[k].pc = "updateGameState"
    /\ LET h == handlers[k]
       IN gameStates' = [gameStates EXCEPT ![1] =
              [gameData |-> h.newGameData,
               currentTurn |-> h.newGameData.currentTurn,
               turnNumber |-> h.gameState.turnNumber + 1]]
    /\ handlers' = [handlers EXCEPT ![k].pc = "broadcastToRoom"]
    /\ UNCHANGED <<roomStatus, roomGameType, roomMaxPlayers, participants,
                   nUpdated, nStarted, lastReply, botTimers,
                   wsRoomId, roomBStates, nUpdatedOther>>

\* game_move after the await of updateGameState: game_updated is broadcast
\* and "Handle bot turns"
MoveBroadcast(k) ==
    /\ k \in DOMAIN handlers
    /\ handlers[k].pc = "broadcastToRoom"
    /\ LET h == handlers[k]
       IN botTimers' =
              IF nextIsBot(h.participants, h.newGameData.currentTurn)
              THEN Append(botTimers,
                          botTimer(h.ws, h.room, h.newGameData, h.participants,
                                   h.gameState.turnNumber))
              ELSE botTimers
    /\ nUpdated' = nUpdated + 1
    /\ lastReply' = "none"
    /\ handlers' = removeAt(handlers, k)
    /\ UNCHANGED <<roomStatus, roomGameType, roomMaxPlayers, participants,
                   gameStates, nStarted, wsRoomId, roomBStates, nUpdatedOther>>

\* nextParticipant.botDifficulty || 'medium'
difficultyOf(participant) ==
    IF participant.botDifficulty = Null THEN "medium" ELSE participant.botDifficulty

\* what the timer callback t does with the outcome r of processMove: its
\* catch logs the error, otherwise the first game-state record of the room
\* that ws.roomId names now is replaced and game_updated is broadcast to
\* the connections whose roomId is that value
botApplied(t, r) ==
    IF r.threw
    THEN UNCHANGED <<gameStates, roomBStates, nUpdated, nUpdatedOther>>
    ELSE LET roomId == wsRoomId[t.ws]
             updated == [gameData |-> r.ret,
                         currentTurn |-> r.ret.currentTurn,
                         turnNumber |-> t.turnNumber + 2]
         IN /\ gameStates' = IF roomId = ThisRoom /\ gameStates # <<>>
                             THEN [gameStates EXCEPT ![1] = updated]
                             ELSE gameStates
            /\ roomBStates' = IF roomId = OtherRoom /\ roomBStates # <<>>
                              THEN [roomBStates EXCEPT ![1] = updated]
                              ELSE roomBStates
            /\ nUpdated' = IF roomId = ThisRoom THEN nUpdated + 1 ELSE nUpdated
            /\ nUpdatedOther' = IF roomId = ThisRoom THEN nUpdatedOther
                                ELSE nUpdatedOther + 1

\* the callback of the k-th bot timer
BotTimerFires(k) ==
    /\ k \in DOMAIN botTimers
    /\ LET t == botTimers[k]
       IN \E botMove \in getBotMove(t.room.gameType, t.gameData,
                                    difficultyOf(t.nextParticipant)) :
             IF botMove = NullMove \/ botMove = ThrownMove
             THEN UNCHANGED <<gameStates, roomBStates, nUpdated, nUpdatedOther>>
             ELSE botApplied(t, processMove(t.room.gameType, t.gameData, botMove,
                                            t.nextParticipant.id, t.participants))
    /\ botTimers' = removeAt(botTimers, k)
    /\ UNCHANGED <<roomStatus, roomGameType, roomMaxPlayers, participants,
                   nStarted, lastReply, wsRoomId, handlers>>

\* case 'game_action' with action 'forfeit'
Forfeit(userId) ==
    /\ inRoom(userId)
    /\ IF findByUser(participants, userId) # 0
       THEN roomStatus' = "finished"
       ELSE UNCHANGED roomStatus
    /\ lastReply' = "none"
    /\ UNCHANGED <<roomGameType, roomMaxPlayers, participants, gameStates,
                   nUpdated, nStarted, botTimers>>
    /\ UNCHANGED asyncVars

\* case 'leave_room'
LeaveRoom(userId) ==
    /\ wsRoomId' = [wsRoomId EXCEPT ![userId] = Undefined]
    /\ lastReply' = "none"
    /\ UNCHANGED <<roomStatus, roomGameType, roomMaxPlayers, participants,
                   gameStates, nUpdated, nStarted, botTimers, handlers,
                   roomBStates, nUpdatedOther>>

\* case 'join_room': a connection that joins a playing room is sent
\* game_started with the room's game data
JoinRoom(userId, roomId) ==
    /\ wsRoomId' = [wsRoomId EXCEPT ![userId] = roomId]
    /\ lastReply' =
          IF \/ roomId = ThisRoom /\ roomStatus = "playing" /\ gameStates # <<>>
             \/ roomId = OtherRoom /\ roomBStates # <<>>
          THEN "game_started" ELSE "none"
    /\ UNCHANGED <<roomStatus, roomGameType, roomMaxPlayers, participants,
                   gameStates, nUpdated, nStarted, botTimers, handlers,
                   roomBStates, nUpdatedOther>>

\* the connection of the user has no game_move handler suspended
idle(userId) == \A k \in DOMAIN handlers : handlers[k].ws # userId

BotsStart == gameStates = <<>> /\ StartGame(HostId, 0)

BotsMoveReceive ==
    /\ Len(handlers) < MaxHandlers
    /\ nUpdated + Len(handlers) < MaxBotPlies
    /\ \E move \in BotChessMoves : MoveReceive(HostId, move)

BotsMoveGetRoom == \E k \in DOMAIN handlers : MoveGetRoom(k)

BotsMoveGetParticipants == \E k \in DOMAIN handlers : MoveGetParticipants(k)

BotsMoveApply == \E k \in DOMAIN handlers : MoveApply(k)

BotsMoveWrite == \E k \in DOMAIN handlers : MoveWrite(k)

BotsMoveBroadcast == \E k \in DOMAIN handlers : MoveBroadcast(k)

BotsTimerFires == \E k \in DOMAIN botTimers : BotTimerFires(k)

BotsForfeit == roomStatus = "playing" /\ idle(HostId) /\ Forfeit(HostId)

BotsRematch == roomStatus # "waiting" /\ idle(HostId) /\ RematchRequest(HostId)

BotsLeaveRoom == inRoom(HostId) /\ idle(HostId) /\ LeaveRoom(HostId)

BotsJoinRoom ==
    /\ idle(HostId)
    /\ \E roomId \in {ThisRoom, OtherRoom} :
          wsRoomId[HostId] # roomId /\ JoinRoom(HostId, roomId)

NextBots ==
    \/ BotsStart
    \/ BotsMoveReceive
    \/ BotsMoveGetRoom
    \/ BotsMoveGetParticipants
    \/ BotsMoveApply
    \/ BotsMoveWrite
    \/ BotsMoveBroadcast
    \/ BotsTimerFires
    \/ BotsForfeit
    \/ BotsRematch
    \/ BotsLeaveRoom
    \/ BotsJoinRoom

SpecBots == InitBots /\ [][NextBots]_vars


----------------------------------------------------------------------------
(* Properties of interleaved game_move handlers and bot timers, checked    *)
(* under SpecBots                                                          *)

\* C22: move application is serialized: the record a handler replaces is
\* the game state that its move was validated against, so no accepted move
\* is overwritten by another one computed from the same old state.
C22_MovesSerialized ==
    [][\A k \in DOMAIN handlers :
          MoveWrite(k) => handlers[k].gameState = getGameState(gameStates)]_vars

\* the k-th handler passes the turn-owner test and the engine accepts its
\* move in this step
accepts(k) ==
    /\ handlers[k].pc = "processMove"
    /\ Len(handlers') = Len(handlers)
    /\ handlers'[k].pc = "updateGameState"

\* C23: while a bot move is pending (its timer is set and has not fired),
\* no game_move of a human participant of the room is accepted.
C23_NoHumanMoveWhileBotPending ==
    [][\A k \in DOMAIN handlers : botTimers # <<>> => ~accepts(k)]_vars

\* C24: when the room was 'playing' as the bot move was scheduled and has
\* been ended by forfeit or reset by rematch_request before the timer
\* fires, the bot's result is discarded: no game-state record is updated
\* and no game_updated event is broadcast.
C24_BotResultDiscardedAfterTeardown ==
    [][\A k \in DOMAIN botTimers :
          (BotTimerFires(k) /\ botTimers[k].room.status = "playing"
              /\ roomStatus # "playing")
          => UNCHANGED <<gameStates, roomBStates, nUpdated, nUpdatedOther>>]_vars

\* C25: a bot move scheduled after a human move in the room leaves the
\* game state of the other room alone and is not broadcast to connections
\* outside the room, whatever room the connection that triggered it is in
\* when the timer fires.
C25_BotMoveStaysInRoom ==
    [][\A k \in DOMAIN botTimers :
          BotTimerFires(k) => UNCHANGED <<roomBStates, nUpdatedOther>>]_vars

\* the room is 'playing', the turn owner is a bot, and neither a bot timer
\* nor a game_move handler is pending
botTurnStuck ==
    /\ roomStatus = "playing"
    /\ started
    /\ nextIsBot(participants, getGameState(gameStates).currentTurn)
    /\ botTimers = <<>>
    /\ handlers = <<>>

\* C26: when the bot selector returns null or the engine rejects the bot's
\* move (the timer callback changes and broadcasts nothing), the room is
\* not left 'playing' with a bot as turn owner and no move pending.
C26_BotFailureHandled ==
    [][\A k \in DOMAIN botTimers :
          (BotTimerFires(k)
              /\ UNCHANGED <<gameStates, roomBStates, nUpdated, nUpdatedOther>>)
          => ~botTurnStuck']_vars

\* a bot timer for the participant id is pending
timerFor(timers, id) ==
    \E k \in DOMAIN timers : timers[k].nextParticipant.id = id

\* C27: whenever an accepted move, of a human or of a bot, leaves a bot as
\* the next turn owner, a bot move is scheduled for it; and when the seat
\* after a bot that has moved is a bot seat too, a bot move is scheduled
\* for that seat.
C27_NextBotScheduled ==
    [][/\ \A k \in DOMAIN handlers :
             (MoveBroadcast(k)
                 /\ nextIsBot(handlers[k].participants,
                              handlers[k].newGameData.currentTurn))
             => timerFor(botTimers', handlers[k].newGameData.currentTurn)
       /\ \A k \in DOMAIN botTimers :
             (BotTimerFires(k) /\ nUpdated' > nUpdated)
             => LET t == botTimers[k]
                    owner == getGameState(gameStates').currentTurn
                    seat == getNextTurn(t.room.gameType, t.participants,
                                        t.nextParticipant.id)
                IN /\ nextIsBot(t.participants, owner)
                      => timerFor(botTimers', owner)
                   /\ nextIsBot(t.participants, seat)
                      => timerFor(botTimers', seat)]_vars

\* C31: the persisted turnNumber of the room's game state starts at 1 and
\* every accepted move, of a human or of a bot, that is written to the room
\* increases it by exactly one, whatever the interleaving of move handlers
\* and bot timers.
C31_TurnNumberCountsMoves ==
    [][/\ (gameStates = <<>> /\ gameStates' # <<>>)
              => getGameState(gameStates').turnNumber = 1
       /\ \A k \in DOMAIN handlers :
             MoveWrite(k) => getGameState(gameStates').turnNumber
                               = getGameState(gameStates).turnNumber + 1
       /\ \A k \in DOMAIN botTimers :
             (BotTimerFires(k) /\ nUpdated' > nUpdated)
                => getGameState(gameStates').turnNumber
                     = getGameState(gameStates).turnNumber + 1]_vars

----------------------------------------------------------------------------
(* Further properties of the chess engine, checked under SpecChess *)

\* the squares of the board that hold the king of the colour
kingSquares(board, color) ==
    {sq \in {Sq(r, c) : r \in Rows, c \in Cols} :
        board[sq.row][sq.col] = (IF color = "white" THEN "K" ELSE "k")}

\* some piece of the colour could capture on the square by the rules of
\* its kind
attackedBy(board, sq, color) ==
    \E r \in Rows, c \in Cols :
        /\ board[r][c] # Null
        /\ colorOfPiece(board[r][c]) = color
        /\ isValidPieceMove(board, board[r][c], Sq(r, c), sq)

\* the piece that the accepted move of this step moved
movedPiece == data.board[lastMove.data.from.row][lastMove.data.from.col]

\* C32: after every accepted chess move the king of the piece that was
\* moved is not attacked by any enemy piece on the resulting board.
C32_NoSelfCheck ==
    [][MoveAccepted =>
        \A sq \in kingSquares(data'.board, colorOfPiece(movedPiece)) :
            ~attackedBy(data'.board, sq, otherColor(colorOfPiece(movedPiece)))]_vars

\* a white move was accepted with the black queen on h4 and the pawn on f2,
\* which may not move, still between her and the white king
C32_Witness ==
    /\ started
    /\ Len(data.moveHistory) >= 3
    /\ data.board[4][7] = "q"
    /\ data.board[6][5] = "P"
    /\ data.board[7][4] = "K"
    /\ LET m == data.moveHistory[Len(data.moveHistory)]
       IN isUpper(data.board[m.data.to.row][m.data.to.col])

----------------------------------------------------------------------------
(* Long chess game: the chess room of SpecChess, with game_move messages   *)
(* that follow a game of ten moves ending in stalemate (1.e3 a5 2.Qh5 Ra6  *)
(* 3.Qxa5 h5 4.h4 Rah6 5.Qxc7 f6 6.Qxd7+ Kf7 7.Qxb7 Qd3 8.Qxb8 Qh7 9.Qxc8  *)
(* Kg6 10.Qe6) or leave it with one of two side moves.                     *)

\* the square of file 0..7 (a..h) and rank 1..8; row 0 is the eighth rank
LineSq(file, rank) == Sq(8 - rank, file)

LineMove(f1, r1, f2, r2) == ChessMove(LineSq(f1, r1), LineSq(f2, r2))

StalemateLine ==
    << LineMove(4, 2, 4, 3), LineMove(0, 7, 0, 5),
       LineMove(3, 1, 7, 5), LineMove(0, 8, 0, 6),
       LineMove(7, 5, 0, 5), LineMove(7, 7, 7, 5),
       LineMove(7, 2, 7, 4), LineMove(0, 6, 7, 6),
       LineMove(0, 5, 2, 7), LineMove(5, 7, 5, 6),
       LineMove(2, 7, 3, 7), LineMove(4, 8, 5, 7),
       LineMove(3, 7, 1, 7), LineMove(3, 8, 3, 3),
       LineMove(1, 7, 1, 8), LineMove(3, 3, 7, 7),
       LineMove(1, 8, 2, 8), LineMove(5, 7, 6, 6),
       LineMove(2, 8, 4, 6) >>

\* a2-a3 and Qe6-e5
SideMoves == {LineMove(0, 2, 0, 3), LineMove(4, 6, 4, 5)}

\* the moves a game_move message may carry when the persisted turnNumber is t
LineMoves(t) ==
    (IF t <= Len(StalemateLine) THEN {StalemateLine[t]} ELSE {}) \cup SideMoves

InitLine == InitChess

LineStart == gameStates = <<>> /\ StartGame(HostId, 0)

LineGameMove ==
    \E u \in Users :
        /\ gameStates # <<>>
        /\ getGameState(gameStates).turnNumber <= MaxLinePlies
        /\ \E move \in LineMoves(getGameState(gameStates).turnNumber) :
              GameMove(u, move)

NextLine == LineStart \/ LineGameMove

SpecLine == InitLine /\ [][NextLine]_vars

----------------------------------------------------------------------------
(* Properties of the end of a chess game, checked under SpecLine *)

\* C33: after an accepted chess move that leaves the new side to move not
\* in check and without any move that isValidChessMove accepts, the state
\* is over by stalemate with the draw marker as winner; when that side has
\* a valid move, the move does not set gameOver.
C33_StalemateDetected ==
    [][MoveAccepted =>
        LET side == colorOfTurn(data'.turn)
        IN IF NoValidReply(data', side)
           THEN ~isKingInCheck(data'.board, side)
                   => /\ data'.gameOver = TRUE
                      /\ data'.endReason = "stalemate"
                      /\ data'.winner = "draw"
           ELSE data'.gameOver = data.gameOver]_vars

C33_Witness ==
    /\ started
    /\ ~isKingInCheck(data.board, colorOfTurn(data.turn))
    /\ NoValidReply(data, colorOfTurn(data.turn))
    /\ data.gameOver = TRUE
    /\ data.endReason = "stalemate"
    /\ data.winner = "draw"

----------------------------------------------------------------------------
(* Properties of the checkers engine, checked under SpecCheckers *)

\* the man of the side to move: red at turn 0, black at turn 1
ownMan(turn) == IF turn = 0 THEN "r" ELSE "b"

\* -1: red moves toward row 0; 1: black moves toward row 7
forward(turn) == IF turn = 0 THEN -1 ELSE 1

\* a man of the side to move steps one square diagonally forward onto an
\* empty square
isManStep(gameData, from, to) ==
    /\ gameData.board[from.row][from.col] = ownMan(gameData.turn)
    /\ gameData.board[to.row][to.col] = Null
    /\ to.row - from.row = forward(gameData.turn)
    /\ Abs(to.col - from.col) = 1

\* a man of the side to move jumps over an opposing piece diagonally
\* forward onto an empty square
isManJump(gameData, from, to) ==
    /\ gameData.board[from.row][from.col] = ownMan(gameData.turn)
    /\ gameData.board[to.row][to.col] = Null
    /\ to.row - from.row = 2 * forward(gameData.turn)
    /\ Abs(to.col - from.col) = 2
    /\ gameData.board[(from.row + to.row) \div 2][(from.col + to.col) \div 2]
          = ownMan(1 - gameData.turn)

\* C34: processMove for checkers accepts a move only if the moved piece is
\* a man of the side to move that steps or jumps diagonally toward the
\* opponent's edge onto an empty square (the engine makes no kings), and
\* after an accepted jump the jumped opposing piece is off the board.
C34_CheckersMoveValidated ==
    (started /\ data.gameType = "checkers")
    => \A from \in CheckersSquares, to \in CheckersSquares :
          LET r == processMove("checkers", data, CheckersMove(from, to, <<>>),
                               getGameState(gameStates).currentTurn, participants)
          IN ~r.threw
             => \/ isManStep(data, from, to)
                \/ /\ isManJump(data, from, to)
                   /\ r.ret.board[(from.row + to.row) \div 2]
                                 [(from.col + to.col) \div 2] = Null

----------------------------------------------------------------------------
(* Frame of the chess engine, checked under SpecChess *)

\* C35: an accepted processMove leaves the state value that was passed in
\* unchanged; after a chess capture its capturedPieces lists hold the
\* entries they held before the call.
C35_ProcessMoveLeavesArgument ==
    started
    => \A from \in ChessSquares, to \in ChessSquares :
          LET r == processMove("chess", data, ChessMove(from, to),
                               getGameState(gameStates).currentTurn, participants)
          IN ~r.threw => /\ r.arg = data
                         /\ r.arg.capturedPieces = data.capturedPieces

----------------------------------------------------------------------------
(* The bot selectors of the card games, checked under SpecCards *)

\* the hand of the participant that owns the turn
turnOwnerHand ==
    IF getGameState(gameStates).currentTurn \in DOMAIN data.hands
    THEN ToSet(data.hands[getGameState(gameStates).currentTurn])
    ELSE {}

\* the move names a card, or a rank of a card, of the hand
fromHand(move, hand) ==
    CASE move.type = "play_card" -> move.data.card \in hand
      [] move.type = "ask_for_cards" ->
            \E card \in hand : rankOf(card) = move.data.rank
      [] OTHER -> TRUE

\* C36: for the hearts, spades, crazy8s and gofish states that
\* initializeGame and processMove produce, getBotMove returns a move (not
\* null, no exception) whose card or rank is taken from the hand of the
\* player that the state's currentTurn names.
C36_CardBotMovesFromHand ==
    (started /\ roomGameType \in CardGames)
    => \A difficulty \in Difficulties :
          \A move \in getBotMove(roomGameType, data, difficulty) :
              /\ move # NullMove
              /\ move # ThrownMove
              /\ fromHand(move, turnOwnerHand)

----------------------------------------------------------------------------
(* Properties of finished games, checked under SpecLine *)

\* C37: once the game is over (gameOver after checkmate or stalemate, or
\* the room 'finished' after a forfeit), no later game_move or bot move
\* changes the room's game state, turn owner or turnNumber.
C37_NoMoveAfterGameOver ==
    [][(started /\ (data.gameOver \/ roomStatus = "finished"))
          => UNCHANGED gameStates]_vars

\* C38: in every chess state reached by accepted moves, inCheck is true
\* exactly when the king of the side to move is attacked and the game is
\* not over; so a move that ends the check leaves inCheck not true.
C38_InCheckFlagCurrent ==
    started
    => (data.inCheck = TRUE
          <=> (isKingInCheck(data.board, colorOfTurn(data.turn)) /\ ~data.gameOver))

----------------------------------------------------------------------------
(* The checkers generator of the second copy of the AIService class        *)
(* (src/unnamed/part_004), which tests the piece tokens 'red' and 'redK'.  *)

isRedToken(piece) == piece = "red" \/ piece = "redK"

\* piece.includes('K'), for the tokens a board can hold
isKingToken(piece) == piece \in {"redK", "blackK"}

isOpponentCheckersPiece(piece1, piece2) == isRedToken(piece1) # isRedToken(piece2)

\* the captures if there are any, the normal moves otherwise
generateCheckerMoves_part004(board, row, col, piece) ==
    LET directions ==
            IF isKingToken(piece)
            THEN << <<-1, -1>>, <<-1, 1>>, <<1, -1>>, <<1, 1>> >>
            ELSE IF isRedToken(piece) THEN << <<-1, -1>>, <<-1, 1>> >>
            ELSE << <<1, -1>>, <<1, 1>> >>
        jump(d) ==
            /\ inBoard(row + d[1] * 2, col + d[2] * 2)
            /\ board[row + d[1] * 2][col + d[2] * 2] = Null
            /\ board[row + d[1]][col + d[2]] # Null
            /\ isOpponentCheckersPiece(piece, board[row + d[1]][col + d[2]])
        free(d) ==
            /\ inBoard(row + d[1], col + d[2])
            /\ board[row + d[1]][col + d[2]] = Null
        jumps == SelectSeq(directions, jump)
        steps == SelectSeq(directions, free)
    IN IF Len(jumps) > 0
       THEN [i \in DOMAIN jumps |->
                [type |-> "move",
                 data |-> [from |-> Sq(row, col),
                           to |-> Sq(row + jumps[i][1] * 2, col + jumps[i][2] * 2),
                           captures |-> <<Sq(row + jumps[i][1], col + jumps[i][2])>>]]]
       ELSE [i \in DOMAIN steps |->
                [type |-> "move",
                 data |-> [from |-> Sq(row, col),
                           to |-> Sq(row + steps[i][1], col + steps[i][2]),
                           captures |-> <<>>]]]

\* the captures of all pieces of the side to move if there are any, their
\* regular moves otherwise
getValidCheckersMove_part004(gameData) ==
    LET board == gameData.board
        isRedTurn == gameData.turn = 0
        capturing(move) == Len(move.data.captures) > 0
        regular(move) == Len(move.data.captures) = 0
        pieceMoves(k) ==
            LET row == (k - 1) \div 8
                col == (k - 1) % 8
                piece == board[row][col]
            IN IF piece = Null THEN <<>>
               ELSE IF isRedToken(piece) # isRedTurn THEN <<>>
               ELSE generateCheckerMoves_part004(board, row, col, piece)
        captureMoves == concatSeqs([k \in 1..64 |-> SelectSeq(pieceMoves(k), capturing)])
    IN IF Len(captureMoves) > 0 THEN captureMoves
       ELSE concatSeqs([k \in 1..64 |-> SelectSeq(pieceMoves(k), regular)])

\* the side to move has a man with an empty square diagonally in front
stepExists(board, turn) ==
    \E row \in Rows, col \in Cols, dc \in {-1, 1} :
        /\ board[row][col] = ownMan(turn)
        /\ inBoard(row + forward(turn), col + dc)
        /\ board[row + forward(turn)][col + dc] = Null

\* every offered move starts on a man of the side to move, and a move is
\* offered when that side has a free forward diagonal square
offersOwnMoves(gameData, moves) ==
    /\ \A i \in DOMAIN moves :
          gameData.board[moves[i].data.from.row][moves[i].data.from.col]
             = ownMan(gameData.turn)
    /\ stepExists(gameData.board, gameData.turn) => Len(moves) > 0

\* C39: on every checkers board reached from initializeCheckers (tokens
\* 'r' and 'b'), every move that a bot generator offers moves a piece of
\* the side to move (turn 0 = red, turn 1 = black), and the generator
\* offers a move whenever that side has a piece with a free forward
\* diagonal square; stated for the generator of ai-service.ts and for the
\* one of part_004.
C39_CheckersGeneratorOwnSide ==
    (started /\ data.gameType = "checkers")
    => /\ offersOwnMoves(data, getValidCheckersMove(data))
       /\ offersOwnMoves(data, getValidCheckersMove_part004(data))

----------------------------------------------------------------------------
(* Join specification: a room with its host and POST /api/rooms/:id/join   *)
(* requests of other users, taken one await at a time.  In this            *)
(* specification handlers holds the suspended join requests.               *)

JoinUsers == {"u2", "u3"}

InitJoin ==
    /\ roomStatus = "waiting"
    /\ roomGameType = "chess"
    /\ roomMaxPlayers = 2
    /\ participants = addParticipant(<<>>, HostId, FALSE)
    /\ gameStates = <<>>
    /\ nUpdated = 0
    /\ nStarted = 0
    /\ lastReply = "none"
    /\ botTimers = <<>>
    /\ wsRoomId = [u \in Users |-> ThisRoom]
    /\ handlers = <<>>
    /\ roomBStates = <<>>
    /\ nUpdatedOther = 0

\* the join route up to its first await: getGameRoom is called
JoinReceive(userId, isSpectator) ==
    /\ handlers' = Append(handlers,
                          [userId |-> userId, isSpectator |-> isSpectator,
                           room |-> getGameRoom, participants |-> <<>>,
                           pc |-> "getParticipantsByRoom"])
    /\ UNCHANGED <<roomStatus, roomGameType, roomMaxPlayers, participants,
                   gameStates, nUpdated, nStarted, lastReply, botTimers,
                   wsRoomId, roomBStates, nUpdatedOther>>

\* after the first await: getParticipantsByRoom is called
JoinGetParticipants(k) ==
    /\ k \in DOMAIN handlers
    /\ handlers[k].pc = "getParticipantsByRoom"
    /\ handlers' = [handlers EXCEPT ![k].participants = participants,
                                    ![k].pc = "addParticipant"]
    /\ UNCHANGED <<roomStatus, roomGameType, roomMaxPlayers, participants,
                   gameStates, nUpdated, nStarted, lastReply, botTimers,
                   wsRoomId, roomBStates, nUpdatedOther>>

\* after the second await: the test on the participants that were read,
\* then 'Room is full' or the call of addParticipant
JoinAdd(k) ==
    /\ k \in DOMAIN handlers
    /\ handlers[k].pc = "addParticipant"
    /\ LET h == handlers[k]
       IN IF ~h.isSpectator
             /\ Len(nonSpectators(h.participants)) >= h.room.maxPlayers
          THEN /\ lastReply' = "Room is full"
               /\ handlers' = removeAt(handlers, k)
               /\ UNCHANGED participants
          ELSE /\ participants' = addParticipant(participants, h.userId, h.isSpectator)
               /\ handlers' = [handlers EXCEPT ![k].pc = "res.json"]
               /\ UNCHANGED lastReply
    /\ UNCHANGED <<roomStatus, roomGameType, roomMaxPlayers, gameStates, nUpdated,
                   nStarted, botTimers, wsRoomId, roomBStates, nUpdatedOther>>

\* after the third await: res.json(participant)
JoinRespond(k) ==
    /\ k \in DOMAIN handlers
    /\ handlers[k].pc = "res.json"
    /\ lastReply' = "none"
    /\ handlers' = removeAt(handlers, k)
    /\ UNCHANGED <<roomStatus, roomGameType, roomMaxPlayers, participants,
                   gameStates, nUpdated, nStarted, botTimers,
                   wsRoomId, roomBStates, nUpdatedOther>>

JoinsReceive ==
    /\ Len(handlers) < MaxHandlers
    /\ Len(participants) + Len(handlers) <= MaxParticipants
    /\ \E u \in JoinUsers, isSpectator \in BOOLEAN : JoinReceive(u, isSpectator)

JoinsGetParticipants == \E k \in DOMAIN handlers : JoinGetParticipants(k)

JoinsAdd == \E k \in DOMAIN handlers : JoinAdd(k)

JoinsRespond == \E k \in DOMAIN handlers : JoinRespond(k)

NextJoin == JoinsReceive \/ JoinsGetParticipants \/ JoinsAdd \/ JoinsRespond

SpecJoin == InitJoin /\ [][NextJoin]_vars

\* C40: under any interleaving of join requests the number of non-spectator
\* participants never exceeds the room's maxPlayers; a non-spectator join
\* that would exceed it is answered with 'Room is full' and adds no
\* participant, while a spectator join is always admitted.
C40_RoomNeverOverfull ==
    /\ [](Len(nonSpectators(participants)) <= roomMaxPlayers)
    /\ [][\A k \in DOMAIN handlers :
            JoinAdd(k)
            => IF handlers[k].isSpectator
               THEN Len(participants') = Len(participants) + 1
               ELSE IF Len(nonSpectators(participants)) >= roomMaxPlayers
               THEN lastReply' = "Room is full" /\ UNCHANGED participants
               ELSE Len(participants') = Len(participants) + 1]_vars

====
